---- MODULE Spec2Model ----
(***************************************************************************)
(* A model of swproj2eq: the .swproj parser (core/parser.py), the          *)
(* log-frequency interpolation of freq_response_to_ir and the preamp       *)
(* policy compute_preamp_db (core/dsp.py).                                  *)
(*                                                                         *)
(* Conventions.  A buffer is a sequence of bytes 0..255; offsets are       *)
(* 0-based as in the Python source, so byte offset k of d is d[k + 1].     *)
(* A Python str is the sequence of its code points.  A float32 read from   *)
(* the buffer is represented by the signed magnitude of its bit pattern    *)
(* (F32): an order-preserving embedding of the IEEE-754 values in which    *)
(* -0.0 = +0.0 = 0 and the NaNs are the values beyond F32Inf.              *)
(***************************************************************************)
EXTENDS Integers, Sequences, FiniteSets, TLC

(***************************************************************************)
(* Program constants.                                                      *)
(***************************************************************************)
POINTS_PER_CURVE == 355

\* b"\x63\x01\x00\x00\x07\x00\x00\x00": uint32 355, uint32 7, little-endian
DATA_HEADER == <<99, 1, 0, 0, 7, 0, 0, 0>>

\* b"</ProjectHeader>"
PROJECT_HEADER_END ==
    <<60, 47, 80, 114, 111, 106, 101, 99, 116, 72, 101, 97, 100, 101, 114, 62>>

\* the lookahead window of data.find(b"\x00", pos, pos + 100)
NUL_WINDOW == 100

\* null_pos - pos > 50
MAX_KEY_LEN == 50

\* val_len > 200
MAX_VAL_LEN == 200

\* the code point U+FFFD that decode("ascii", errors="replace") substitutes
REPLACEMENT_CHAR == 65533

(***************************************************************************)
(* Python strings of the model, as code points.                            *)
(***************************************************************************)
Str(s) ==
    CASE s = "ChannelDelayMs" ->
            <<67, 104, 97, 110, 110, 101, 108, 68, 101, 108, 97, 121, 77, 115>>
      [] s = "ChannelDelayMsX" ->
            <<67, 104, 97, 110, 110, 101, 108, 68, 101, 108, 97, 121, 77, 115, 88>>
      [] s = "ChannelName" ->
            <<67, 104, 97, 110, 110, 101, 108, 78, 97, 109, 101>>
      [] s = "ChannelIndex" ->
            <<67, 104, 97, 110, 110, 101, 108, 73, 110, 100, 101, 120>>
      [] s = "ChannelGroup" ->
            <<67, 104, 97, 110, 110, 101, 108, 71, 114, 111, 117, 112>>
      [] s = "Channel_" -> <<67, 104, 97, 110, 110, 101, 108, 95>>
      [] s = "FL" -> <<70, 76>>
      [] s = "FR" -> <<70, 82>>
      [] s = "Main" -> <<77, 97, 105, 110>>
      [] s = "" -> <<>>
      [] s = "0" -> <<48>>
      [] s = "-0" -> <<45, 48>>
      [] s = "0.0" -> <<48, 46, 48>>
      [] s = "1" -> <<49>>
      [] s = "2" -> <<50>>
      [] s = "-1" -> <<45, 49>>
      [] s = "5" -> <<53>>
      [] s = "-3" -> <<45, 51>>
      [] s = "2.5" -> <<50, 46, 53>>
      [] s = "+7" -> <<43, 55>>
      [] s = "nan" -> <<110, 97, 110>>
      [] s = "x" -> <<120>>
      [] s = "ab" -> <<97, 98>>

Min(S) == CHOOSE x \in S : \A y \in S : x <= y
Max(S) == CHOOSE x \in S : \A y \in S : y <= x
MinOf(a, b) == IF a <= b THEN a ELSE b
Abs(x) == IF x < 0 THEN -x ELSE x

(***************************************************************************)
(* bytes: indexing, slicing and find, with Python's 0-based offsets.       *)
(***************************************************************************)
At(d, off) == d[off + 1]

\* d[from:to], clipped to the buffer as Python slices are
Slice(d, from, to) ==
    LET hi == MinOf(to, Len(d))
    IN  IF from >= hi THEN <<>> ELSE [k \in 1..(hi - from) |-> d[from + k]]

\* d.find(sub, start, end): the lowest offset in [start, end) at which sub
\* occurs entirely inside [start, min(end, len(d))), or -1
Find(d, sub, start, end) ==
    LET hi == MinOf(end, Len(d)) - Len(sub)
        hits == {i \in start..hi :
                    d[i + 1] = sub[1] /\ \A j \in 2..Len(sub) : d[i + j] = sub[j]}
    IN  IF hits = {} THEN -1 ELSE Min(hits)

\* [m.start() for m in re.finditer(sub, d)], for a literal that cannot overlap
\* itself: every occurrence, ascending
RECURSIVE SortedSeq(_)
SortedSeq(S) ==
    IF S = {} THEN <<>> ELSE <<Min(S)>> \o SortedSeq(S \ {Min(S)})

FindAll(d, sub) ==
    SortedSeq({i \in 0..(Len(d) - Len(sub)) :
                  d[i + 1] = sub[1] /\ \A j \in 2..Len(sub) : d[i + j] = sub[j]})

Range(s) == {s[k] : k \in 1..Len(s)}

(***************************************************************************)
(* struct.unpack_from and bytes.decode.                                    *)
(***************************************************************************)
\* 0x7F800000, the bit pattern of +inf: a magnitude beyond it is a NaN
F32Inf == 255 * 8388608

\* struct.unpack_from("<f", d, off)[0], as the signed magnitude of the bits
F32(d, off) ==
    LET mag == (At(d, off + 3) % 128) * 16777216 + At(d, off + 2) * 65536
               + At(d, off + 1) * 256 + At(d, off)
    IN  IF At(d, off + 3) >= 128 THEN -mag ELSE mag

F32IsNaN(x) == Abs(x) > F32Inf

\* a < b on float32 values (false when either is a NaN)
F32Less(a, b) == ~F32IsNaN(a) /\ ~F32IsNaN(b) /\ a < b

\* struct.unpack_from raises struct.error unless 4 bytes lie inside the buffer
CanUnpack(d, off) == off >= 0 /\ off + 4 <= Len(d)

\* struct.unpack_from("<I", d, off)[0]; values of 2^31 and more, which the
\* code only compares with 200, are represented by 2^31 - 1
U32(d, off) ==
    IF At(d, off + 3) >= 128
    THEN 2147483647
    ELSE At(d, off + 3) * 16777216 + At(d, off + 2) * 65536
         + At(d, off + 1) * 256 + At(d, off)

\* bytes.decode("ascii", errors="replace"): one code point per byte
Decode(b) ==
    [k \in 1..Len(b) |-> IF b[k] >= 128 THEN REPLACEMENT_CHAR ELSE b[k]]

\* str.isprintable() on a decoded string: the ASCII controls and DEL are not
\* printable, U+FFFD is; the empty string is printable
IsPrintable(s) ==
    \A k \in 1..Len(s) : (s[k] >= 32 /\ s[k] <= 126) \/ s[k] = REPLACEMENT_CHAR

(***************************************************************************)
(* int(str) and float(str).                                                *)
(***************************************************************************)
IsDigit(c) == c >= 48 /\ c <= 57
IsSpace(c) == c = 32 \/ (c >= 9 /\ c <= 13)

RECURSIVE LStrip(_)
LStrip(s) == IF s # <<>> /\ IsSpace(s[1]) THEN LStrip(Tail(s)) ELSE s

RECURSIVE RStrip(_)
RStrip(s) ==
    IF s # <<>> /\ IsSpace(s[Len(s)]) THEN RStrip(SubSeq(s, 1, Len(s) - 1)) ELSE s

Strip(s) == RStrip(LStrip(s))

\* the sign of a literal and the literal without it
SignOf(s) == IF s # <<>> /\ s[1] = 45 THEN -1 ELSE 1
Unsigned(s) == IF s # <<>> /\ s[1] \in {43, 45} THEN Tail(s) ELSE s

\* digits, single underscores allowed between digits
IsDigitRun(s) ==
    /\ s # <<>>
    /\ IsDigit(s[1]) /\ IsDigit(s[Len(s)])
    /\ \A k \in 1..Len(s) : IsDigit(s[k]) \/ s[k] = 95
    /\ \A k \in 1..(Len(s) - 1) : ~(s[k] = 95 /\ s[k + 1] = 95)

RECURSIVE DigitsValue(_)
DigitsValue(s) ==
    IF s = <<>> THEN 0
    ELSE IF s[Len(s)] = 95 THEN DigitsValue(SubSeq(s, 1, Len(s) - 1))
    ELSE 10 * DigitsValue(SubSeq(s, 1, Len(s) - 1)) + (s[Len(s)] - 48)

\* int(s) for a str: [ok |-> FALSE] stands for ValueError
PyInt(s) ==
    LET body == Unsigned(Strip(s))
    IN  IF IsDigitRun(body)
        THEN [ok |-> TRUE, val |-> SignOf(Strip(s)) * DigitsValue(body)]
        ELSE [ok |-> FALSE, val |-> 0]

\* A Python float: k = "num" is the finite value num / den (den a power of
\* ten, no common factor 10), k = "nan" a NaN, k = "inf" an infinity of the
\* sign of num, k = "err" the ValueError of float(s).
FloatZero == [k |-> "num", num |-> 0, den |-> 1]

RECURSIVE Pow10(_)
Pow10(n) == IF n = 0 THEN 1 ELSE 10 * Pow10(n - 1)

RECURSIVE FloatNorm(_)
FloatNorm(f) ==
    IF f.k = "num" /\ f.den > 1 /\ f.num % 10 = 0
    THEN FloatNorm([k |-> "num", num |-> f.num \div 10, den |-> f.den \div 10])
    ELSE f

Lower(c) == IF c >= 65 /\ c <= 90 THEN c + 32 ELSE c
LowerStr(s) == [k \in 1..Len(s) |-> Lower(s[k])]

\* float(s) for the literals without exponent: [sign] digits [. digits],
\* [sign] . digits, [sign] nan, [sign] inf, [sign] infinity
PyFloat(s) ==
    LET t == Strip(s)
        body == Unsigned(t)
        low == LowerStr(body)
        dots == {k \in 1..Len(body) : body[k] = 46}
        dot == IF dots = {} THEN Len(body) + 1 ELSE Min(dots)
        ip == SubSeq(body, 1, dot - 1)
        fp == SubSeq(body, dot + 1, Len(body))
    IN  IF low = Str("nan") THEN [k |-> "nan", num |-> 0, den |-> 1]
        ELSE IF low \in {<<105, 110, 102>>, <<105, 110, 102, 105, 110, 105, 116, 121>>}
        THEN [k |-> "inf", num |-> SignOf(t), den |-> 0]
        ELSE IF /\ Cardinality(dots) <= 1
                /\ ip = <<>> \/ IsDigitRun(ip)
                /\ fp = <<>> \/ IsDigitRun(fp)
                /\ ip # <<>> \/ fp # <<>>
        THEN FloatNorm([k |-> "num",
                        num |-> SignOf(t) * (DigitsValue(ip) * Pow10(Len(fp))
                                             + DigitsValue(fp)),
                        den |-> Pow10(Len(fp))])
        ELSE [k |-> "err", num |-> 0, den |-> 1]

\* x != 0 (a NaN differs from everything)
FloatNonZero(f) == f.k \in {"nan", "inf"} \/ (f.k = "num" /\ f.num # 0)

\* abs(x)
FloatAbs(f) == [k |-> f.k, num |-> Abs(f.num), den |-> f.den]

\* x >= 0 (false for a NaN)
FloatGeqZero(f) == (f.k = "num" /\ f.num >= 0) \/ (f.k = "inf" /\ f.num > 0)

(***************************************************************************)
(* _parse_metadata (parser.py 13-41).                                      *)
(***************************************************************************)
\* a dict of str -> str, as a function; the empty dict
EmptyDict == [k \in {} |-> <<>>]

\* meta[key] = val
DictPut(meta, key, val) ==
    [k \in (DOMAIN meta) \cup {key} |-> IF k = key THEN val ELSE meta[k]]

\* meta.get(key, default)
DictGet(meta, key, default) == IF key \in DOMAIN meta THEN meta[key] ELSE default

\* end = min((b for b in boundaries if b > start_pos), default=len(data))
MetaEnd(d, start_pos, boundaries) ==
    LET later == {b \in Range(boundaries) : b > start_pos}
    IN  IF later = {} THEN Len(d) ELSE Min(later)

\* the iteration without the check of the length against 200
MetaStep_AnyLength(d, pos, meta) ==
    LET null_pos == Find(d, <<0>>, pos, pos + NUL_WINDOW)
        key == Decode(Slice(d, pos, null_pos))
        val_len_pos == null_pos + 1
        val_len == U32(d, val_len_pos)
        val == Decode(Slice(d, val_len_pos + 4, val_len_pos + 4 + val_len))
        resync == [pos |-> pos + 1, meta |-> meta, brk |-> FALSE]
    IN  IF null_pos = -1 \/ null_pos - pos > MAX_KEY_LEN THEN resync
        ELSE IF ~IsPrintable(key) \/ Len(key) < 2 THEN resync
        ELSE IF val_len_pos + 4 > Len(d)
        THEN [pos |-> pos, meta |-> meta, brk |-> TRUE]
        ELSE [pos |-> val_len_pos + 4 + val_len,
              meta |-> DictPut(meta, key, val),
              brk |-> FALSE]

\* MetaStep that looks at the same byte again after a rejected record
MetaStep_NoResync(d, pos, meta) ==
    LET null_pos == Find(d, <<0>>, pos, pos + NUL_WINDOW)
        key == Decode(Slice(d, pos, null_pos))
        val_len_pos == null_pos + 1
        val_len == U32(d, val_len_pos)
        val == Decode(Slice(d, val_len_pos + 4, val_len_pos + 4 + val_len))
        resync == [pos |-> pos, meta |-> meta, brk |-> FALSE]
    IN  IF null_pos = -1 \/ null_pos - pos > MAX_KEY_LEN THEN resync
        ELSE IF ~IsPrintable(key) \/ Len(key) < 2 THEN resync
        ELSE IF val_len_pos + 4 > Len(d)
        THEN [pos |-> pos, meta |-> meta, brk |-> TRUE]
        ELSE IF val_len > MAX_VAL_LEN THEN resync
        ELSE [pos |-> val_len_pos + 4 + val_len,
              meta |-> DictPut(meta, key, val),
              brk |-> FALSE]

\* One iteration of the while loop, entered with pos < end: the cursor and
\* the dict after it, and whether the loop was left by break.
MetaStep(d, pos, meta) ==
    LET null_pos == Find(d, <<0>>, pos, pos + NUL_WINDOW)
        key == Decode(Slice(d, pos, null_pos))
        val_len_pos == null_pos + 1
        val_len == U32(d, val_len_pos)
        val == Decode(Slice(d, val_len_pos + 4, val_len_pos + 4 + val_len))
        resync == [pos |-> pos + 1, meta |-> meta, brk |-> FALSE]
    IN  IF null_pos = -1 \/ null_pos - pos > MAX_KEY_LEN THEN resync
        ELSE IF ~IsPrintable(key) \/ Len(key) < 2 THEN resync
        ELSE IF val_len_pos + 4 > Len(d)
        THEN [pos |-> pos, meta |-> meta, brk |-> TRUE]
        ELSE IF val_len > MAX_VAL_LEN THEN resync
        ELSE [pos |-> val_len_pos + 4 + val_len,
              meta |-> DictPut(meta, key, val),
              brk |-> FALSE]

RECURSIVE MetaLoop(_, _, _, _)
MetaLoop(d, pos, end, meta) ==
    IF pos >= end THEN meta
    ELSE LET s == MetaStep(d, pos, meta)
         IN  IF s.brk THEN s.meta ELSE MetaLoop(d, s.pos, end, s.meta)

parse_metadata(d, start_pos, boundaries) ==
    MetaLoop(d, start_pos, MetaEnd(d, start_pos, boundaries), EmptyDict)

(***************************************************************************)
(* _parse_blocks (parser.py 44-64).                                        *)
(***************************************************************************)
\* round(q / p) for integers q >= 0, p > 0: to nearest, ties to even
PyRoundDiv(q, p) ==
    LET f == q \div p
        r == q % p
    IN  IF 2 * r < p THEN f
        ELSE IF 2 * r > p THEN f + 1
        ELSE IF f % 2 = 0 THEN f ELSE f + 1

\* next_boundary = min((b for b in boundaries + [len(data)] if b > float_start),
\*                     default=len(data))
NextBoundary(d, float_start, boundaries) ==
    LET later == {b \in Range(boundaries) \cup {Len(d)} : b > float_start}
    IN  IF later = {} THEN Len(d) ELSE Min(later)

\* fpp = round((block_bytes // 4) / POINTS_PER_CURVE)
BlockFpp(d, header, boundaries) ==
    LET float_start == header + 8
        block_bytes == NextBoundary(d, float_start, boundaries) - float_start
    IN  PyRoundDiv(block_bytes \div 4, POINTS_PER_CURVE)

\* the offset of a point in a block of two floats a point, whatever fpp
PointOffset_TwoFloats(header, fpp, i) == header + 8 + i * 2 * 4

\* offset = float_start + i * fpp * 4, for point i of 0..POINTS_PER_CURVE-1
PointOffset(header, fpp, i) == header + 8 + i * fpp * 4

\* The body of the for loop over data_headers for one header: the decoded
\* block, or ok = FALSE when a struct.unpack_from raises struct.error.
DecodeBlock(d, header, boundaries) ==
    LET fpp == BlockFpp(d, header, boundaries)
        ok == \A i \in 0..(POINTS_PER_CURVE - 1) :
                 /\ CanUnpack(d, PointOffset(header, fpp, i))
                 /\ CanUnpack(d, PointOffset(header, fpp, i) + 4)
    IN  IF ok
        THEN [ok |-> TRUE, fpp |-> fpp,
              freqs |-> [i \in 1..POINTS_PER_CURVE |->
                            F32(d, PointOffset(header, fpp, i - 1))],
              values |-> [i \in 1..POINTS_PER_CURVE |->
                            F32(d, PointOffset(header, fpp, i - 1) + 4)]]
        ELSE [ok |-> FALSE, fpp |-> fpp, freqs |-> <<>>, values |-> <<>>]

(***************************************************************************)
(* parse_swproj (parser.py 67-125).                                        *)
(***************************************************************************)
\* One iteration of the while True loop of lines 77-82, from search position
\* pos: the match (or -1), the next search position and the list.
ScanAt(idx, pos, data_headers) ==
    IF idx = -1
    THEN [idx |-> idx, pos |-> pos, data_headers |-> data_headers]
    ELSE [idx |-> idx, pos |-> idx + 1, data_headers |-> Append(data_headers, idx)]

ScanStep(d, pos, data_headers) ==
    CHOOSE s \in {ScanAt(idx, pos, data_headers) :
                     idx \in {Find(d, DATA_HEADER, pos, Len(d))}} : TRUE

RECURSIVE ScanLoop(_, _, _)
ScanLoop(d, pos, data_headers) ==
    LET s == ScanStep(d, pos, data_headers)
    IN  IF s.idx = -1 THEN data_headers ELSE ScanLoop(d, s.pos, s.data_headers)

\* boundaries = sorted(data_headers + delay_positions)
Boundaries(data_headers, delay_positions) ==
    SortedSeq(Range(data_headers) \cup Range(delay_positions))

\* f"{i}" for an int i >= 0
RECURSIVE IntStr(_)
IntStr(i) == IF i < 10 THEN <<48 + i>> ELSE IntStr(i \div 10) \o <<48 + (i % 10)>>

\* the position in the dict (a sequence in insertion order) of key, or 0
KeyPos(channels, name, index) ==
    LET at == {k \in 1..Len(channels) :
                  channels[k].name = name /\ channels[k].index = index}
    IN  IF at = {} THEN 0 ELSE Min(at)

\* The body of the for loop of lines 92-110 for anchor number i (from 0) with
\* its metadata: the dict after it, or the ValueError of int() or float().
AnchorAssemble(channels, meta, i) ==
    LET ch_name == DictGet(meta, Str("ChannelName"), Str("Channel_") \o IntStr(i))
        idx == IF Str("ChannelIndex") \in DOMAIN meta
               THEN PyInt(meta[Str("ChannelIndex")])
               ELSE [ok |-> TRUE, val |-> i]
        ch_idx == idx.val
        fresh == [name |-> ch_name,
                  index |-> ch_idx,
                  group |-> DictGet(meta, Str("ChannelGroup"), <<>>),
                  delay_ms |-> FloatZero,
                  frequencies |-> <<>>,
                  correction_dB |-> <<>>,
                  measurement_dB |-> <<>>]
        with == IF KeyPos(channels, ch_name, ch_idx) = 0
                THEN Append(channels, fresh)
                ELSE channels
        at == KeyPos(with, ch_name, ch_idx)
        delay_str == DictGet(meta, Str("ChannelDelayMs"), Str("0"))
        delay_val == IF delay_str \in {Str("-0"), Str("0")}
                     THEN FloatZero
                     ELSE PyFloat(delay_str)
    IN  IF ~idx.ok THEN [error |-> "ValueError:int", channels |-> channels]
        ELSE IF delay_val.k = "err"
        THEN [error |-> "ValueError:float", channels |-> with]
        ELSE IF FloatNonZero(delay_val)
        THEN [error |-> "",
              channels |-> [with EXCEPT ![at].delay_ms = FloatAbs(delay_val)]]
        ELSE [error |-> "", channels |-> with]

\* SortByIndex, leaving the dict order
SortByIndex_DictOrder(s) == s

\* sorted(channels.values(), key=lambda c: c.index): stable
RECURSIVE SortByIndex(_)
SortByIndex(s) ==
    IF s = <<>> THEN <<>>
    ELSE LET c == s[Len(s)]
             front == SortByIndex(SubSeq(s, 1, Len(s) - 1))
             keep == Cardinality({k \in 1..Len(front) : front[k].index <= c.index})
         IN  SubSeq(front, 1, keep) \o <<c>> \o SubSeq(front, keep + 1, Len(front))

\* AssignBlocks, giving channel i the blocks i and i+1
AssignBlocks_Overlapping(channel_list, blocks) ==
    [i \in 1..Len(channel_list) |->
        LET ch == channel_list[i]
            corr_idx == i - 1
            meas_idx == i
        IN  [ch EXCEPT
               !.frequencies =
                   IF corr_idx < Len(blocks) THEN blocks[corr_idx + 1].freqs ELSE @,
               !.correction_dB =
                   IF corr_idx < Len(blocks) THEN blocks[corr_idx + 1].values ELSE @,
               !.measurement_dB =
                   IF meas_idx < Len(blocks) THEN blocks[meas_idx + 1].values ELSE @]]

\* AssignBlocks, filling correction_dB only when the channel has both blocks
AssignBlocks_PairOnly(channel_list, blocks) ==
    [i \in 1..Len(channel_list) |->
        LET ch == channel_list[i]
            corr_idx == (i - 1) * 2
            meas_idx == (i - 1) * 2 + 1
        IN  [ch EXCEPT
               !.frequencies =
                   IF corr_idx < Len(blocks) THEN blocks[corr_idx + 1].freqs ELSE @,
               !.correction_dB =
                   IF meas_idx < Len(blocks) THEN blocks[corr_idx + 1].values ELSE @,
               !.measurement_dB =
                   IF meas_idx < Len(blocks) THEN blocks[meas_idx + 1].values ELSE @]]

\* the for loop of lines 113-120
AssignBlocks(channel_list, blocks) ==
    [i \in 1..Len(channel_list) |->
        LET ch == channel_list[i]
            corr_idx == (i - 1) * 2
            meas_idx == (i - 1) * 2 + 1
        IN  [ch EXCEPT
               !.frequencies =
                   IF corr_idx < Len(blocks) THEN blocks[corr_idx + 1].freqs ELSE @,
               !.correction_dB =
                   IF corr_idx < Len(blocks) THEN blocks[corr_idx + 1].values ELSE @,
               !.measurement_dB =
                   IF meas_idx < Len(blocks) THEN blocks[meas_idx + 1].values ELSE @]]

\* Validate, accepting more than two channels
Validate_AtLeastTwo(channel_list, require_stereo) ==
    IF require_stereo /\ Len(channel_list) < 2
    THEN "ChannelCountMismatch"
    ELSE "Profile"

\* lines 122-125: the outcome of the call
Validate(channel_list, require_stereo) ==
    IF require_stereo /\ Len(channel_list) # 2
    THEN "ChannelCountMismatch"
    ELSE "Profile"

\* _parse_blocks: the decoded block of every header, in discovery order
parse_blocks(d, data_headers, boundaries) ==
    [k \in 1..Len(data_headers) |-> DecodeBlock(d, data_headers[k], boundaries)]

\* the for loop of lines 92-110 from anchor number i on
RECURSIVE AnchorLoop(_, _, _, _, _)
AnchorLoop(d, delay_positions, boundaries, i, channels) ==
    IF i = Len(delay_positions) THEN [error |-> "", channels |-> channels]
    ELSE LET r == AnchorAssemble(
                      channels,
                      parse_metadata(d, delay_positions[i + 1], boundaries),
                      i)
         IN  IF r.error # "" THEN r
             ELSE AnchorLoop(d, delay_positions, boundaries, i + 1, r.channels)

Result(outcome, profile) == [outcome |-> outcome, profile |-> profile]

\* lines 89-125, given the headers and the anchors
ParseFrom(d, require_stereo, data_headers, delay_positions, boundaries) ==
    LET blks == parse_blocks(d, data_headers, boundaries)
        asm == AnchorLoop(d, delay_positions, boundaries, 0, <<>>)
        channel_list == AssignBlocks(SortByIndex(asm.channels), blks)
    IN  IF \E k \in 1..Len(blks) : ~blks[k].ok THEN Result("struct.error", <<>>)
        ELSE IF asm.error # "" THEN Result(asm.error, <<>>)
        ELSE IF Validate(channel_list, require_stereo) # "Profile"
        THEN Result(Validate(channel_list, require_stereo), <<>>)
        ELSE Result("Profile", channel_list)

\* the whole call on the bytes d of the file: what it returns or raises
parse_swproj(d, require_stereo) ==
    IF Find(d, PROJECT_HEADER_END, 0, Len(d)) = -1 THEN Result("MissingHeader", <<>>)
    ELSE LET data_headers == ScanLoop(d, 0, <<>>)
             delay_positions == FindAll(d, Str("ChannelDelayMs"))
         IN  IF data_headers = <<>> THEN Result("NoDataBlocks", <<>>)
             ELSE ParseFrom(d, require_stereo, data_headers, delay_positions,
                            Boundaries(data_headers, delay_positions))

(***************************************************************************)
(* The input files.  A path names a file by the segments it is made of;    *)
(* open(path).read() is the concatenation of their bytes.                  *)
(***************************************************************************)
\* the most ChannelDelayMs anchors of a metadata file
MaxAnchors == 2

\* the most data blocks of a channel-assignment file
MaxBlocks == 5

\* the most channels of a channel-assignment file
MaxChannels == 3

\* the most full-size data blocks of a file
MaxBigBlocks == 2

Seg(t, key, val, n, fpp, seed) ==
    [t |-> t, key |-> key, val |-> val, n |-> n, fpp |-> fpp, seed |-> seed]

SegHdr == Seg("hdr", "", "", 0, 0, 0)
SegMark == Seg("mark", "", "", 0, 0, 0)
\* key NUL uint32(len(val)) val
SegRec(key, val) == Seg("rec", key, val, 0, 0, 0)
\* key NUL uint32(len(str(n))) str(n)
SegRecNum(key, n) == Seg("recnum", key, "", n, 0, 0)
\* n float32 laid out fpp to a point
SegPay(n, fpp, seed) == Seg("pay", "", "", n, fpp, seed)
\* n bytes of value b
SegFill(n, b) == Seg("fill", "", "", n, 0, b)
\* a printable key, NUL, and a length field of 65535
SegBadLen == Seg("badlen", "", "", 0, 0, 0)
\* the anchor literal, NUL, and two more bytes
SegKeyOnly == Seg("keyonly", "", "", 0, 0, 0)

\* the bytes of float number j (from 0) of a payload
PayFloat(seg, j) ==
    LET p == j \div seg.fpp
        slot == j % seg.fpp
    IN  IF slot = 0 THEN <<0, p % 256, 32 + (p \div 256), 65>>
        ELSE IF slot = 1
        THEN <<seg.seed, p % 256, p \div 256, IF p % 2 = 1 THEN 192 ELSE 64>>
        ELSE <<seg.seed, 2, 3, 4>>

LE32(n) == <<n % 256, (n \div 256) % 256, (n \div 65536) % 256, n \div 16777216>>

SegBytes(seg) ==
    CASE seg.t = "hdr" -> PROJECT_HEADER_END
      [] seg.t = "mark" -> DATA_HEADER
      [] seg.t = "rec" ->
            Str(seg.key) \o <<0>> \o LE32(Len(Str(seg.val))) \o Str(seg.val)
      [] seg.t = "recnum" ->
            Str(seg.key) \o <<0>> \o LE32(Len(IntStr(seg.n))) \o IntStr(seg.n)
      [] seg.t = "pay" ->
            [k \in 1..(4 * seg.n) |-> PayFloat(seg, (k - 1) \div 4)[((k - 1) % 4) + 1]]
      [] seg.t = "fill" -> [k \in 1..seg.n |-> seg.seed]
      [] seg.t = "badlen" -> Str("ab") \o <<0, 255, 255, 0, 0>>
      [] seg.t = "keyonly" -> Str("ChannelDelayMs") \o <<0, 1, 0>>

RECURSIVE Flatten(_)
Flatten(path) ==
    IF path = <<>> THEN <<>>
    ELSE Flatten(SubSeq(path, 1, Len(path) - 1)) \o SegBytes(path[Len(path)])

\* a metadata run: the ChannelDelayMs record, then the others; "none" leaves a
\* record out (for the delay: the anchor literal is there, the key is not)
Anchor(name, index, delay, group) ==
    <<IF delay = "none" THEN SegRec("ChannelDelayMsX", "1")
                        ELSE SegRec("ChannelDelayMs", delay)>>
    \o (IF index = "none" THEN <<>> ELSE <<SegRec("ChannelIndex", index)>>)
    \o (IF name = "none" THEN <<>> ELSE <<SegRec("ChannelName", name)>>)
    \o (IF group = "none" THEN <<>> ELSE <<SegRec("ChannelGroup", group)>>)

AnchorPalette ==
    { Anchor("FL", "0", "5", "Main"),
      Anchor("FL", "0", "0", "none"),
      Anchor("FL", "0", "-3", "none"),
      Anchor("FR", "1", "-0", "none"),
      Anchor("FR", "1", "2.5", "none"),
      Anchor("FR", "0", "0.0", "none"),
      Anchor("none", "none", "none", "none"),
      Anchor("FL", "x", "5", "none"),
      Anchor("FL", "0", "x", "none"),
      Anchor("FL", "0", "nan", "none"),
      Anchor("FL", "2", "+7", "none") }

\* a data block whose payload is one point: stride 0
TinyBlock(seed) == <<SegMark, SegPay(2, 2, seed)>>

RECURSIVE ConcatAll(_)
ConcatAll(ss) == IF ss = <<>> THEN <<>> ELSE ss[1] \o ConcatAll(Tail(ss))

SeqsUpTo(S, n) == UNION {[1..k -> S] : k \in 0..n}

\* header, up to MaxAnchors metadata runs, one data block
MetaFiles ==
    {<<SegHdr>> \o ConcatAll(as) \o TinyBlock(1) : as \in SeqsUpTo(AnchorPalette, MaxAnchors)}

\* header, k channels in descending index order, nb data blocks
AssignFiles ==
    {<<SegHdr>>
       \o ConcatAll([j \in 1..k |->
                       <<SegRec("ChannelDelayMs", "5"), SegRecNum("ChannelIndex", k - j)>>])
       \o ConcatAll([b \in 1..nb |-> TinyBlock(b)]) :
     k \in 1..MaxChannels, nb \in 1..MaxBlocks}

\* the payloads of full-size blocks: 2 floats a point, 3 floats a point, and
\* 2 floats a point cut off after 3/4 of the points
BigPayloads ==
    { SegPay(2 * POINTS_PER_CURVE, 2, 7),
      SegPay(3 * POINTS_PER_CURVE, 3, 8),
      SegPay((3 * POINTS_PER_CURVE) \div 2 + 1, 2, 9) }

\* what follows the last block: nothing, a few bytes, half a curve of bytes
\* and more, or a metadata run
Tails ==
    { <<>>,
      <<SegFill(4, 1)>>,
      <<SegFill(2 * POINTS_PER_CURVE + 2, 1)>>,
      Anchor("FR", "1", "-3", "none") }

BigFiles ==
    {<<SegHdr>> \o Anchor("FL", "0", "5", "none")
       \o ConcatAll([b \in 1..Len(ps) |-> <<SegMark, ps[b]>>]) \o tail :
     ps \in SeqsUpTo(BigPayloads, MaxBigBlocks) \ {<<>>}, tail \in Tails}

MiscFiles ==
    { <<>>,
      <<SegFill(20, 1)>>,
      TinyBlock(1),
      Anchor("FL", "0", "5", "none") \o TinyBlock(1),
      <<SegHdr>>,
      <<SegHdr>> \o Anchor("FL", "0", "5", "none"),
      <<SegHdr, SegPay(2, 2, 1)>>,
      <<SegHdr, SegMark>>,
      <<SegHdr, SegMark, SegPay(1, 2, 1)>>,
      <<SegHdr>> \o Anchor("FL", "0", "5", "none") \o <<SegMark, SegPay(1, 2, 1)>>,
      <<SegHdr>> \o TinyBlock(1) \o Anchor("FL", "0", "5", "none"),
      <<SegHdr>> \o TinyBlock(1) \o <<SegKeyOnly>>,
      <<SegHdr, SegRec("ChannelDelayMs", "5"), SegFill(3, 1), SegBadLen,
        SegFill(60, 97), SegRec("ChannelIndex", "1")>> \o TinyBlock(1),
      <<SegHdr, SegRec("ChannelDelayMs", "5"), SegRec("ChannelDelayMsX", "0"),
        SegFill(3, 200), SegRec("ChannelIndex", "1"), SegRec("ChannelIndex", "2")>>
        \o TinyBlock(1),
      <<SegHdr, SegRec("ChannelDelayMs", "5"), SegRec("ChannelName", "ChannelDelayMs")>>
        \o TinyBlock(1),
      <<SegHdr>> \o Anchor("FL", "0", "5", "none")
        \o <<SegMark, SegPay(POINTS_PER_CURVE \div 2, 2, 7), SegFill(3, 1)>>,
      <<SegHdr>> \o Anchor("FL", "0", "5", "none")
        \o <<SegMark, SegPay(2 * POINTS_PER_CURVE + POINTS_PER_CURVE \div 2, 2, 7),
             SegFill(3, 1)>>,
      <<SegHdr, SegRec("ChannelDelayMs", "5"), SegFill(3, 1), SegRec("ChannelIndex", "0")>>
        \o TinyBlock(1) \o TinyBlock(2)
        \o <<SegRec("ChannelDelayMs", "0"), SegBadLen, SegRec("ChannelIndex", "1")>> }

Paths == MetaFiles \cup AssignFiles \cup BigFiles \cup MiscFiles

\* with open(path, "rb") as f: data = f.read()
FileSystem == [p \in Paths |-> Flatten(p)]
Read(path) == FileSystem[path]

(***************************************************************************)
(* The state of one call parse_swproj(path, require_stereo).               *)
(***************************************************************************)
VARIABLES
    path,             \* the argument path
    require_stereo,   \* the argument require_stereo
    pc,               \* the position of the call in parse_swproj
    scan_pos,         \* pos of the loop of lines 76-82
    data_headers,     \* the list data_headers
    delay_positions,  \* the list delay_positions
    boundaries,       \* the list boundaries
    blocks,           \* the list blocks being built by _parse_blocks
    channels,         \* the dict channels, in insertion order
    anchor_i,         \* i of the loop of lines 92-110
    pos,              \* pos of _parse_metadata
    end,              \* end of _parse_metadata
    meta,             \* meta of _parse_metadata
    outcome,          \* "" while running; "Profile" or the exception raised
    profile,          \* the channels of the Profile returned, if one is
    freqs,            \* freq_response_to_ir: the argument freqs
    gains_dB,         \* the argument gains_dB
    bf,               \* the bin frequency being interpolated
    lo,               \* lo of the binary search
    hi,               \* hi of the binary search
    interp,           \* the value appended to interp_gains_dB, once computed
    pchannels,        \* compute_preamp_db: the correction_dB of each channel
    headroom,         \* the argument extra_headroom_db
    preamp            \* what the call returned or raised, once it has

parser_vars ==
    <<path, require_stereo, pc, scan_pos, data_headers, delay_positions,
      boundaries, blocks, channels, anchor_i, pos, end, meta, outcome, profile>>

interp_vars == <<freqs, gains_dB, bf, lo, hi, interp>>

preamp_vars == <<pchannels, headroom, preamp>>

(***************************************************************************)
(* The state of the other parts of the program, one group of variables a   *)
(* part; a step of one part leaves the groups of the others alone.         *)
(***************************************************************************)
VARIABLES
    renderer,     \* the PCM renderer called: "write_wav" or "export_easyeffects"
    irs,          \* the sample lists: [samples] of write_wav, irs of export_easyeffects
    peak,         \* peak, once computed
    frame_i,      \* i of the loop of easyeffects_exporter.py 22
    chan_c,       \* the position of ir in irs in the loop of line 23
    interleaved   \* int_samples of write_wav, interleaved of export_easyeffects

pcm_vars == <<renderer, irs, peak, frame_i, chan_c, interleaved>>

PcmIdle ==
    /\ renderer = ""
    /\ irs = <<>>
    /\ peak = 0
    /\ frame_i = 0
    /\ chan_c = 0
    /\ interleaved = <<>>

VARIABLES
    impl,             \* which synthesizer runs: "reference", or "numpy" for the fast path
    sample_rate,      \* the argument sample_rate
    ir_length,        \* the argument ir_length
    interp_gains_dB,  \* the interpolated gain of every bin
    log_mag,          \* log_mag
    full_log_mag,     \* full_log_mag
    cepstrum,         \* cepstrum_real and cepstrum_imag
    mp_cepstrum,      \* mp_cepstrum_real and mp_cepstrum_imag
    log_spec,         \* spec_real and spec_imag
    mp_spec,          \* mp_spec_real and mp_spec_imag
    ir                \* the impulse response returned

synth_vars ==
    <<impl, sample_rate, ir_length, interp_gains_dB, log_mag, full_log_mag,
      cepstrum, mp_cepstrum, log_spec, mp_spec, ir>>

SynthIdle ==
    /\ impl = ""
    /\ sample_rate = 0
    /\ ir_length = 0
    /\ interp_gains_dB = <<>>
    /\ log_mag = <<>>
    /\ full_log_mag = <<>>
    /\ cepstrum = [re |-> <<>>, im |-> <<>>]
    /\ mp_cepstrum = [re |-> <<>>, im |-> <<>>]
    /\ log_spec = [re |-> <<>>, im |-> <<>>]
    /\ mp_spec = [re |-> <<>>, im |-> <<>>]
    /\ ir = <<>>

VARIABLES
    argv,          \* raw_argv of main, every argument a sequence of characters
    normalized,    \* normalize_legacy_args(raw_argv)
    renormalized   \* normalize_legacy_args of the normalized arguments

cli_vars == <<argv, normalized, renormalized>>

CliIdle ==
    /\ argv = <<>>
    /\ normalized = <<>>
    /\ renormalized = <<>>

VARIABLES
    state,          \* the state given to save_state
    state_file,     \* what is at the path state_file()
    tmp_file,       \* what is at the path with the suffix .tmp
    clock,          \* how many times _now_iso was called
    saved,          \* what save_state returned
    loaded,         \* what load_state returned
    previous_file,  \* what was at the path state_file() when save_state was called
    observed        \* what load_state read and returned in another process during the save

store_vars ==
    <<state, state_file, tmp_file, clock, saved, loaded, previous_file,
      observed>>

StoreIdle ==
    /\ state = <<>>
    /\ state_file = [kind |-> "absent"]
    /\ tmp_file = [kind |-> "absent"]
    /\ clock = 0
    /\ saved = <<>>
    /\ loaded = <<>>
    /\ previous_file = [kind |-> "absent"]
    /\ observed = {}

VARIABLES
    args,                        \* the options of quickstart
    facts,                       \* what the collaborators answered with success so far, by name
    default_sink,                \* default_sink, "" for None
    run_state,                   \* state of run
    profile_id,                  \* profile_id
    should_switch,               \* should_switch
    switched_default,            \* switched_default
    previous_sink_for_rollback,  \* previous_sink_for_rollback, "" for None
    calls,                       \* the calls made that change the system, in order
    saved_states,                \* the states given to save_state, in order
    exit_code                    \* what run returned, -1 before it returns

quick_vars ==
    <<args, facts, default_sink, run_state, profile_id, should_switch,
      switched_default, previous_sink_for_rollback, calls, saved_states,
      exit_code>>

QuickIdle ==
    /\ args = [set_default |-> FALSE, yes |-> FALSE, force |-> FALSE]
    /\ facts = {}
    /\ default_sink = ""
    /\ run_state = <<>>
    /\ profile_id = ""
    /\ should_switch = FALSE
    /\ switched_default = FALSE
    /\ previous_sink_for_rollback = ""
    /\ calls = <<>>
    /\ saved_states = <<>>
    /\ exit_code = -1

VARIABLES
    command,           \* the command each process runs
    lock_pc,           \* the position of each process in its command
    state_dir_exists,  \* whether the directory state_dir() exists
    lock_inode,        \* the file at the path lock_file(), 0 for no file
    fd,                \* the file each process has open as f, 0 for none
    flock_holder       \* for every file created, the process holding its flock, 0 for none

lock_vars ==
    <<command, lock_pc, state_dir_exists, lock_inode, fd, flock_holder>>

LockIdle ==
    /\ command = <<>>
    /\ lock_pc = <<>>
    /\ state_dir_exists = FALSE
    /\ lock_inode = 0
    /\ fd = <<>>
    /\ flock_holder = <<>>

VARIABLES
    system,         \* the audio server and the user services: default sink, sinks, service, processes
    state_json,     \* what is at the path state_file() between the commands
    last_run,       \* the last command run: options, state before it, where it returned
    ran,            \* how many commands have run
    course,         \* what kind of commands have run so far
    original_sink   \* the default sink before the first switch to the virtual sink, "" before it

sess_vars == <<system, state_json, last_run, ran, course, original_sink>>

SessIdle ==
    /\ system = <<>>
    /\ state_json = [kind |-> "absent"]
    /\ last_run = <<>>
    /\ ran = 0
    /\ course = ""
    /\ original_sink = ""

\* the state of a call of parse_swproj without the position of the call
parser_state ==
    <<path, require_stereo, scan_pos, data_headers, delay_positions, boundaries,
      blocks, channels, anchor_i, pos, end, meta, outcome, profile>>

later_vars ==
    <<pcm_vars, synth_vars, cli_vars, store_vars, quick_vars, lock_vars,
      sess_vars>>

LaterIdle == PcmIdle /\ SynthIdle /\ CliIdle /\ StoreIdle /\ QuickIdle /\ LockIdle /\ SessIdle

\* what a step of this part leaves alone, and the idle state of the others
pcm_frame ==
    <<parser_state, interp_vars, preamp_vars, synth_vars, cli_vars,
      store_vars, quick_vars, lock_vars, sess_vars>>
PcmOthersIdle == SynthIdle /\ CliIdle /\ StoreIdle /\ QuickIdle /\ LockIdle /\ SessIdle

\* what a step of this part leaves alone, and the idle state of the others
synth_frame ==
    <<parser_state, interp_vars, preamp_vars, pcm_vars, cli_vars, store_vars,
      quick_vars, lock_vars, sess_vars>>
SynthOthersIdle == PcmIdle /\ CliIdle /\ StoreIdle /\ QuickIdle /\ LockIdle /\ SessIdle

\* what a step of this part leaves alone, and the idle state of the others
cli_frame ==
    <<parser_state, interp_vars, preamp_vars, pcm_vars, synth_vars,
      store_vars, quick_vars, lock_vars, sess_vars>>
CliOthersIdle == PcmIdle /\ SynthIdle /\ StoreIdle /\ QuickIdle /\ LockIdle /\ SessIdle

\* what a step of this part leaves alone, and the idle state of the others
store_frame ==
    <<parser_state, interp_vars, preamp_vars, pcm_vars, synth_vars, cli_vars,
      quick_vars, lock_vars, sess_vars>>
StoreOthersIdle == PcmIdle /\ SynthIdle /\ CliIdle /\ QuickIdle /\ LockIdle /\ SessIdle

\* what a step of this part leaves alone, and the idle state of the others
quick_frame ==
    <<parser_state, interp_vars, preamp_vars, pcm_vars, synth_vars, cli_vars,
      store_vars, lock_vars, sess_vars>>
QuickOthersIdle == PcmIdle /\ SynthIdle /\ CliIdle /\ StoreIdle /\ LockIdle /\ SessIdle

\* what a step of this part leaves alone, and the idle state of the others
lock_frame ==
    <<parser_state, interp_vars, preamp_vars, pcm_vars, synth_vars, cli_vars,
      store_vars, quick_vars, sess_vars>>
LockOthersIdle == PcmIdle /\ SynthIdle /\ CliIdle /\ StoreIdle /\ QuickIdle /\ SessIdle

\* what a step of this part leaves alone, and the idle state of the others
sess_frame ==
    <<parser_state, interp_vars, preamp_vars, pcm_vars, synth_vars, cli_vars,
      store_vars, quick_vars, lock_vars>>
SessOthersIdle == PcmIdle /\ SynthIdle /\ CliIdle /\ StoreIdle /\ QuickIdle /\ LockIdle

data == Read(path)

ParserIdle ==
    /\ scan_pos = 0
    /\ data_headers = <<>>
    /\ delay_positions = <<>>
    /\ boundaries = <<>>
    /\ blocks = <<>>
    /\ channels = <<>>
    /\ anchor_i = 0
    /\ pos = 0
    /\ end = 0
    /\ meta = EmptyDict
    /\ outcome = ""
    /\ profile = <<>>

ParserInit ==
    /\ path \in Paths
    /\ require_stereo \in BOOLEAN
    /\ pc = "open"
    /\ ParserIdle

\* raise: the call ends with the exception
Raise(exc) ==
    /\ outcome' = exc
    /\ pc' = "done"

\* Open without the check of lines 72-73
Open_NoHeaderCheck ==
    /\ pc = "open"
    /\ pc' = "scan" /\ outcome' = outcome
    /\ UNCHANGED <<path, require_stereo, scan_pos, data_headers, delay_positions,
                   boundaries, blocks, channels, anchor_i, pos, end, meta, profile>>
    /\ UNCHANGED <<interp_vars, preamp_vars, later_vars>>

\* lines 68-73: read the file, look for the header terminator
Open ==
    /\ pc = "open"
    /\ \E d \in {data} :
          IF Find(d, PROJECT_HEADER_END, 0, Len(d)) = -1
          THEN Raise("MissingHeader")
          ELSE pc' = "scan" /\ outcome' = outcome
    /\ UNCHANGED <<path, require_stereo, scan_pos, data_headers, delay_positions,
                   boundaries, blocks, channels, anchor_i, pos, end, meta, profile>>
    /\ UNCHANGED <<interp_vars, preamp_vars, later_vars>>

\* lines 77-82, one iteration of the while True loop; when it breaks, lines
\* 84-88: no header is NoDataBlocks, otherwise the anchors and the boundary
\* list are computed
Scan ==
    /\ pc = "scan"
    /\ \E d \in {data} : \E s \in {ScanStep(d, scan_pos, data_headers)} :
          IF s.idx # -1
          THEN /\ scan_pos' = s.pos
               /\ data_headers' = s.data_headers
               /\ UNCHANGED <<pc, outcome, delay_positions, boundaries>>
          ELSE /\ UNCHANGED <<scan_pos, data_headers>>
               /\ IF data_headers = <<>>
                  THEN /\ Raise("NoDataBlocks")
                       /\ UNCHANGED <<delay_positions, boundaries>>
                  ELSE /\ delay_positions' = FindAll(d, Str("ChannelDelayMs"))
                       /\ boundaries' = Boundaries(data_headers, delay_positions')
                       /\ pc' = "blocks"
                       /\ outcome' = outcome
    /\ UNCHANGED <<path, require_stereo, blocks, channels, anchor_i, pos, end,
                   meta, profile>>
    /\ UNCHANGED <<interp_vars, preamp_vars, later_vars>>

\* _parse_blocks, one iteration of the loop over data_headers
ParseBlock ==
    /\ pc = "blocks"
    /\ Len(blocks) < Len(data_headers)
    /\ \E d \in {data} :
       \E b \in {DecodeBlock(d, data_headers[Len(blocks) + 1], boundaries)} :
           IF b.ok
           THEN /\ blocks' = Append(blocks, [fpp |-> b.fpp, freqs |-> b.freqs,
                                             values |-> b.values])
                /\ UNCHANGED <<pc, outcome>>
           ELSE /\ Raise("struct.error")
                /\ UNCHANGED blocks
    /\ UNCHANGED <<path, require_stereo, scan_pos, data_headers, delay_positions,
                   boundaries, channels, anchor_i, pos, end, meta, profile>>
    /\ UNCHANGED <<interp_vars, preamp_vars, later_vars>>

\* line 89 returns; line 91
BlocksDone ==
    /\ pc = "blocks"
    /\ Len(blocks) = Len(data_headers)
    /\ pc' = "anchor"
    /\ UNCHANGED <<path, require_stereo, scan_pos, data_headers, delay_positions,
                   boundaries, blocks, channels, anchor_i, pos, end, meta, outcome,
                   profile>>
    /\ UNCHANGED <<interp_vars, preamp_vars, later_vars>>

\* line 92 with another anchor, line 93 and lines 14-16
AnchorNext ==
    /\ pc = "anchor"
    /\ anchor_i < Len(delay_positions)
    /\ LET start_pos == delay_positions[anchor_i + 1]
       IN  /\ meta' = EmptyDict
           /\ pos' = start_pos
           /\ \E d \in {data} : end' = MetaEnd(d, start_pos, boundaries)
           /\ pc' = IF start_pos < end' THEN "meta" ELSE "meta_done"
    /\ UNCHANGED <<path, require_stereo, scan_pos, data_headers, delay_positions,
                   boundaries, blocks, channels, anchor_i, outcome, profile>>
    /\ UNCHANGED <<interp_vars, preamp_vars, later_vars>>

\* lines 17-40, one iteration of the while loop
MetaIter ==
    /\ pc = "meta"
    /\ pos < end
    /\ \E d \in {data} : \E s \in {MetaStep(d, pos, meta)} :
           /\ pos' = s.pos
           /\ meta' = s.meta
           /\ pc' = IF s.brk \/ s.pos >= end THEN "meta_done" ELSE "meta"
    /\ UNCHANGED <<path, require_stereo, scan_pos, data_headers, delay_positions,
                   boundaries, blocks, channels, anchor_i, end, outcome, profile>>
    /\ UNCHANGED <<interp_vars, preamp_vars, later_vars>>

\* line 41 returns; lines 94-110
AnchorBody ==
    /\ pc = "meta_done"
    /\ \E r \in {AnchorAssemble(channels, meta, anchor_i)} :
           IF r.error # ""
           THEN /\ Raise(r.error)
                /\ UNCHANGED <<channels, anchor_i>>
           ELSE /\ channels' = r.channels
                /\ anchor_i' = anchor_i + 1
                /\ pc' = "anchor"
                /\ outcome' = outcome
    /\ UNCHANGED <<path, require_stereo, scan_pos, data_headers, delay_positions,
                   boundaries, blocks, pos, end, meta, profile>>
    /\ UNCHANGED <<interp_vars, preamp_vars, later_vars>>

\* line 92 with no anchor left; lines 112-125
Finish ==
    /\ pc = "anchor"
    /\ anchor_i = Len(delay_positions)
    /\ \E channel_list \in {AssignBlocks(SortByIndex(channels), blocks)} :
           /\ outcome' = Validate(channel_list, require_stereo)
           /\ profile' = IF outcome' = "Profile" THEN channel_list ELSE <<>>
    /\ pc' = "done"
    /\ UNCHANGED <<path, require_stereo, scan_pos, data_headers, delay_positions,
                   boundaries, blocks, channels, anchor_i, pos, end, meta>>
    /\ UNCHANGED <<interp_vars, preamp_vars, later_vars>>

(***************************************************************************)
(* freq_response_to_ir (dsp.py 27-48): the interpolation of one bin.       *)
(***************************************************************************)
\* the frequencies of a grid are 1..MaxFreq
MaxFreq == 4

\* the most points of a grid
MaxGrid == 4

GainValues == {-6, 3}

\* math.log in thousandths: strictly increasing, defined on the positive
\* frequencies of the model
Ln(x) ==
    CASE x = 1 -> 0
      [] x = 2 -> 693
      [] x = 3 -> 1099
      [] x = 4 -> 1386
      [] x = 5 -> 1609
      [] x = 6 -> 1792
      [] x = 7 -> 1946
      [] x = 8 -> 2079

\* sorted ascending (equal neighbours allowed), of positive frequencies
Grids ==
    {g \in UNION {[1..n -> 1..MaxFreq] : n \in 1..MaxGrid} :
        \A k \in 1..(Len(g) - 1) : g[k] <= g[k + 1]}

\* a value gains_dB[lo] + t * (gains_dB[hi] - gains_dB[lo]) as the fraction
\* num / den
Rat(num, den) == [num |-> num, den |-> den]

\* InterpAt, starting from the gain of hi
InterpAt_FromHi(f, g, target, l, h) ==
    IF f[h + 1] # f[l + 1]
    THEN Rat(g[h + 1] * (Ln(f[h + 1]) - Ln(f[l + 1]))
               + (Ln(target) - Ln(f[l + 1])) * (g[h + 1] - g[l + 1]),
             Ln(f[h + 1]) - Ln(f[l + 1]))
    ELSE Rat(g[h + 1], 1)

\* lines 42-48, with freqs[lo] and the others read at offsets from 0
InterpAt(f, g, target, l, h) ==
    IF f[h + 1] # f[l + 1]
    THEN Rat(g[l + 1] * (Ln(f[h + 1]) - Ln(f[l + 1]))
               + (Ln(target) - Ln(f[l + 1])) * (g[h + 1] - g[l + 1]),
             Ln(f[h + 1]) - Ln(f[l + 1]))
    ELSE Rat(g[l + 1], 1)

\* SearchStep, moving lo only when freqs[mid] is below the target
SearchStep_Strict(f, target, l, h) ==
    LET mid == (l + h) \div 2
    IN  IF f[mid + 1] < target THEN [lo |-> mid, hi |-> h] ELSE [lo |-> l, hi |-> mid]

\* lines 37-41: lo and hi after one iteration of the while loop
SearchStep(f, target, l, h) ==
    LET mid == (l + h) \div 2
    IN  IF f[mid + 1] <= target THEN [lo |-> mid, hi |-> h] ELSE [lo |-> l, hi |-> mid]

InterpIdle ==
    /\ freqs = <<>>
    /\ gains_dB = <<>>
    /\ bf = 0
    /\ lo = 0
    /\ hi = 0
    /\ interp = Rat(0, 0)

InterpInit ==
    /\ freqs \in Grids
    /\ gains_dB \in [1..Len(freqs) -> GainValues]
    /\ bf \in 0..(MaxFreq + 1)
    /\ lo = 0
    /\ hi = 0
    /\ interp = Rat(0, 0)

\* lines 30-31
InterpBelow ==
    /\ pc = "bin"
    /\ bf <= freqs[1]
    /\ interp' = Rat(gains_dB[1], 1)
    /\ pc' = "bin_done"
    /\ UNCHANGED <<freqs, gains_dB, bf, lo, hi>>
    /\ UNCHANGED <<parser_state, preamp_vars, later_vars>>

\* lines 32-33
InterpAbove ==
    /\ pc = "bin"
    /\ ~(bf <= freqs[1])
    /\ bf >= freqs[Len(freqs)]
    /\ interp' = Rat(gains_dB[Len(gains_dB)], 1)
    /\ pc' = "bin_done"
    /\ UNCHANGED <<freqs, gains_dB, bf, lo, hi>>
    /\ UNCHANGED <<parser_state, preamp_vars, later_vars>>

\* lines 34-35
InterpSearch ==
    /\ pc = "bin"
    /\ ~(bf <= freqs[1])
    /\ ~(bf >= freqs[Len(freqs)])
    /\ lo' = 0
    /\ hi' = Len(freqs) - 1
    /\ pc' = "search"
    /\ UNCHANGED <<freqs, gains_dB, bf, interp>>
    /\ UNCHANGED <<parser_state, preamp_vars, later_vars>>

\* lines 36-41, one iteration of the while loop
SearchIter ==
    /\ pc = "search"
    /\ hi - lo > 1
    /\ lo' = SearchStep(freqs, bf, lo, hi).lo
    /\ hi' = SearchStep(freqs, bf, lo, hi).hi
    /\ UNCHANGED <<pc, freqs, gains_dB, bf, interp>>
    /\ UNCHANGED <<parser_state, preamp_vars, later_vars>>

\* lines 42-48
InterpFinish ==
    /\ pc = "search"
    /\ ~(hi - lo > 1)
    /\ interp' = InterpAt(freqs, gains_dB, bf, lo, hi)
    /\ pc' = "bin_done"
    /\ UNCHANGED <<freqs, gains_dB, bf, lo, hi>>
    /\ UNCHANGED <<parser_state, preamp_vars, later_vars>>

(***************************************************************************)
(* compute_preamp_db (dsp.py 8-19).  Gains are in tenths of a dB.          *)
(***************************************************************************)
\* the most channels of a call
MaxPreampChannels == 2

\* the most points of a correction curve
MaxPoints == 2

PreampGains == {-10, 0, 30}

Curves == UNION {[1..n -> PreampGains] : n \in 0..MaxPoints}

\* the value returned, or the ValueError of max() of an empty sequence
compute_preamp_db(chs, extra_headroom_db) ==
    IF chs = <<>> THEN [k |-> "return", val |-> 0]
    ELSE IF \E c \in 1..Len(chs) : chs[c] = <<>>
    THEN [k |-> "ValueError", val |-> 0]
    ELSE LET max_gain == Max({Max(Range(chs[c])) : c \in 1..Len(chs)})
         IN  IF max_gain <= 0 THEN [k |-> "return", val |-> 0]
             ELSE [k |-> "return", val |-> -(max_gain + extra_headroom_db)]

NoCall == [k |-> "", val |-> 0]

PreampIdle ==
    /\ pchannels = <<>>
    /\ headroom = 0
    /\ preamp = NoCall

PreampInit ==
    /\ pchannels \in UNION {[1..n -> Curves] : n \in 0..MaxPreampChannels}
    /\ headroom \in {0, 10}
    /\ preamp = NoCall

PreampCall ==
    /\ pc = "preamp"
    /\ preamp' = compute_preamp_db(pchannels, headroom)
    /\ pc' = "preamp_done"
    /\ UNCHANGED <<pchannels, headroom>>
    /\ UNCHANGED <<parser_state, interp_vars, later_vars>>

(***************************************************************************)
(* The PCM renderers: write_wav (dsp.py 136-145) and the interleaved       *)
(* renderer of export_easyeffects (easyeffects_exporter.py 18-30).         *)
(* A sample is an integer number of units of 1.0.  The product             *)
(* s * scale * 32767 is s * 95 * 32767 / (100 * peak); for the samples of  *)
(* the model it is 0 or at least 1 / (100 * peak) away from every integer, *)
(* so the float product truncates and rounds as the exact one does.        *)
(***************************************************************************)
\* the largest 16-bit sample written
FULL_SCALE == 32767

\* the most sample lists of a call
MaxPcmChannels == 2

\* the most samples of a list
MaxPcmLen == 2

SampleValues == {-1, 0, 2}

\* int(x) of the float x = num / den, den > 0: towards zero
TruncDiv(num, den) == IF num >= 0 THEN num \div den ELSE -((-num) \div den)

\* max(-32767, min(32767, int(s * scale * 32767))) with scale = 0.95 / peak
Quantize(s, p) ==
    Max({-FULL_SCALE, MinOf(FULL_SCALE, TruncDiv(s * 95 * FULL_SCALE, 100 * p))})

\* max(abs(s) for s in samples) or 1.0
WavPeak(samples) ==
    LET m == Max({Abs(samples[k]) : k \in 1..Len(samples)})
    IN  IF m = 0 THEN 1 ELSE m

\* GlobalPeak, looking at the first list only
GlobalPeak_FirstOnly(irlist) == WavPeak(irlist[1])

\* max(max(abs(s) for s in ir) for ir in irs) or 1.0
GlobalPeak(irlist) ==
    LET m == Max({Max({Abs(irlist[c][k]) : k \in 1..Len(irlist[c])}) :
                  c \in 1..Len(irlist)})
    IN  IF m = 0 THEN 1 ELSE m

PcmInit ==
    /\ renderer \in {"write_wav", "export_easyeffects"}
    /\ irs \in UNION {[1..c -> [1..n -> SampleValues]] :
                        c \in 1..MaxPcmChannels, n \in 1..MaxPcmLen}
    /\ renderer = "write_wav" => Len(irs) = 1
    /\ peak = 0
    /\ frame_i = 0
    /\ chan_c = 0
    /\ interleaved = <<>>

\* write_wav, lines 138-145
WriteWav ==
    /\ pc = "pcm"
    /\ renderer = "write_wav"
    /\ peak' = WavPeak(irs[1])
    /\ interleaved' = [k \in 1..Len(irs[1]) |-> Quantize(irs[1][k], peak')]
    /\ pc' = "pcm_done"
    /\ UNCHANGED <<renderer, irs, frame_i, chan_c>>
    /\ UNCHANGED pcm_frame

\* export_easyeffects, lines 19-21
RenderStart ==
    /\ pc = "pcm"
    /\ renderer = "export_easyeffects"
    /\ peak' = GlobalPeak(irs)
    /\ interleaved' = <<>>
    /\ frame_i' = 0
    /\ chan_c' = 0
    /\ pc' = "interleave"
    /\ UNCHANGED <<renderer, irs>>
    /\ UNCHANGED pcm_frame

\* lines 22-24: one append of the nested loops
RenderAppend ==
    /\ pc = "interleave"
    /\ frame_i < Len(irs[1])
    /\ interleaved' = Append(interleaved, Quantize(irs[chan_c + 1][frame_i + 1], peak))
    /\ IF chan_c + 1 < Len(irs)
       THEN chan_c' = chan_c + 1 /\ frame_i' = frame_i
       ELSE chan_c' = 0 /\ frame_i' = frame_i + 1
    /\ UNCHANGED <<pc, renderer, irs, peak>>
    /\ UNCHANGED pcm_frame

\* lines 26-30: the loops are over, the frames are written
RenderWrite ==
    /\ pc = "interleave"
    /\ frame_i = Len(irs[1])
    /\ pc' = "pcm_done"
    /\ UNCHANGED pcm_vars
    /\ UNCHANGED pcm_frame

(***************************************************************************)
(* freq_response_to_ir (dsp.py 22-98) and freq_response_to_ir_fast         *)
(* (dsp.py 101-133), a stage a step.  Real numbers are fixed-point: an      *)
(* integer number of units of 1/Unit.  The sample rate is a multiple of     *)
(* ir_length, so that every bin frequency is an integer.                    *)
(***************************************************************************)
Unit == 100 * 100

\* ir_length is a power of two up to 2^MaxLog2
MaxLog2 == 3

\* the frequencies of a curve are among 1..MaxCurveFreq
MaxCurveFreq == 3

CurveGains == {-6, 0}

RECURSIVE Pow2(_)
Pow2(e) == IF e = 0 THEN 1 ELSE 2 * Pow2(e - 1)

\* the strictly ascending grids of positive frequencies
CurveGrids ==
    {g \in UNION {[1..n -> 1..MaxCurveFreq] : n \in 1..MaxCurveFreq} :
        \A k \in 1..(Len(g) - 1) : g[k] < g[k + 1]}

\* a * b of two fixed-point numbers, rounded towards zero
Mul(a, b) == TruncDiv(a * b, Unit)

\* math.cos and math.sin of 2 * pi * m / 16, for m in 0..15
Cos16 ==
    <<10000, 9239, 7071, 3827, 0, -3827, -7071, -9239,
      -10000, -9239, -7071, -3827, 0, 3827, 7071, 9239>>

\* math.cos(angle) and math.sin(angle) for angle = 2 * pi * k * j / n, n a
\* power of two up to 16
CosAngle(k, j, n) == Cos16[(((k * j) % n) * (16 \div n)) + 1]
SinAngle(k, j, n) == Cos16[(((((k * j) % n) * (16 \div n)) + 12) % 16) + 1]

\* math.exp(x), math.cos(x), math.sin(x): the power series, term by term
RECURSIVE ExpTerms(_, _, _)
ExpTerms(x, term, k) ==
    IF term = 0 \/ k > 16 THEN 0
    ELSE term + ExpTerms(x, TruncDiv(term * x, k * Unit), k + 1)

Exp(x) == ExpTerms(x, Unit, 1)

RECURSIVE AltTerms(_, _, _)
AltTerms(x, term, k) ==
    IF term = 0 \/ k > 16 THEN 0
    ELSE term + AltTerms(x, -TruncDiv(TruncDiv(term * x, k * Unit) * x,
                                      (k + 1) * Unit), k + 2)

Cos(x) == AltTerms(x, Unit, 1)
Sin(x) == AltTerms(x, x, 2)

RECURSIVE SumSeq(_)
SumSeq(s) == IF s = <<>> THEN 0 ELSE s[1] + SumSeq(Tail(s))

\* lines 36-41: the while loop
RECURSIVE SearchLoop(_, _, _, _)
SearchLoop(f, target, l, h) ==
    IF h - l > 1
    THEN SearchLoop(f, target, SearchStep(f, target, l, h).lo,
                    SearchStep(f, target, l, h).hi)
    ELSE [lo |-> l, hi |-> h]

\* lines 30-48: the gain appended for the bin frequency target
InterpGain(f, g, target) ==
    IF target <= f[1] THEN Rat(g[1], 1)
    ELSE IF target >= f[Len(f)] THEN Rat(g[Len(g)], 1)
    ELSE InterpAt(f, g, target, SearchLoop(f, target, 0, Len(f) - 1).lo,
                  SearchLoop(f, target, 0, Len(f) - 1).hi)

\* lines 109-115: np.interp over the logarithms of the clipped bin frequency
\* and of the grid, then the two assignments outside the grid
NpInterpGain(f, g, target) ==
    LET x == Max({f[1], MinOf(target, f[Len(f)])})
        j == Max({k \in 1..Len(f) : f[k] <= x})
    IN  IF target < f[1] THEN Rat(g[1], 1)
        ELSE IF target > f[Len(f)] THEN Rat(g[Len(g)], 1)
        ELSE IF j = Len(f) THEN Rat(g[Len(g)], 1)
        ELSE Rat(g[j] * (Ln(f[j + 1]) - Ln(f[j]))
                   + (Ln(x) - Ln(f[j])) * (g[j + 1] - g[j]),
                 Ln(f[j + 1]) - Ln(f[j]))

\* lines 24-26: half, and bin_freqs[i] = i * sample_rate / n_fft
Half(n_fft) == n_fft \div 2 + 1
BinFreq(i, rate, n_fft) == (i * rate) \div n_fft

\* lines 50-51: log(max(10 ** (g / 20), 1e-10)) of a gain g = num / den dB:
\* g * ln(10) / 20, not below ln(1e-10)
LogMagOf(r) ==
    Max({-230259, IF r.num >= 0 THEN PyRoundDiv(r.num * 1151, r.den)
                  ELSE -PyRoundDiv((-r.num) * 1151, r.den)})

\* the mirror with the first and the last bin repeated: log_mag + log_mag[::-1]
Mirror_KeepEnds(lm) == lm \o [k \in 1..Len(lm) |-> lm[Len(lm) + 1 - k]]

\* line 52: log_mag + log_mag[-2:0:-1]
Mirror(lm) == lm \o [k \in 1..(Len(lm) - 2) |-> lm[Len(lm) - k]]

\* lines 54-61: the discrete Fourier transform of a real sequence, over n
Cepstrum(x) ==
    LET n == Len(x)
    IN  [re |-> [k \in 1..n |->
                   TruncDiv(SumSeq([j \in 1..n |->
                               Mul(x[j], CosAngle(k - 1, j - 1, n))]), n)],
         im |-> [k \in 1..n |->
                   TruncDiv(SumSeq([j \in 1..n |->
                               Mul(x[j], -SinAngle(k - 1, j - 1, n))]), n)]]

\* the weight of index k (from 0) of a window of n: 1 at 0, 2 below n/2,
\* 1 at n/2 for an even n, 0 above
Window(k, n) ==
    IF k = 0 THEN 1
    ELSE IF k < n \div 2 THEN 2
    ELSE IF k = n \div 2 /\ n % 2 = 0 THEN 1
    ELSE 0

\* [0.0] * n and np.zeros(n)
Zeros(n) == [k \in 1..n |-> 0]

\* w after w[k] = v, k an offset from 0
SetAt(w, k, v) == [w EXCEPT ![k + 1] = v]

\* lines 67-69 on the real parts: the loop for k in range(1, n // 2), from k
\* on, w[k] being what cepstrum_real[k] is multiplied by
RECURSIVE RefDouble(_, _, _)
RefDouble(w, k, n) ==
    IF k < n \div 2 THEN RefDouble(SetAt(w, k, 2), k + 1, n) ELSE w

\* lines 64-70: what the reference multiplies each cepstrum_real[k] by
RefWindow(n) ==
    LET w0 == SetAt(Zeros(n), 0, 1)
        w1 == RefDouble(w0, 1, n)
    IN  IF n % 2 = 0 THEN SetAt(w1, n \div 2, 1) ELSE w1

\* NpWindow without lines 126-127
NpWindow_NoNyquist(n) ==
    LET w0 == SetAt(Zeros(n), 0, 1)
    IN  [k \in 1..n |-> IF 1 <= k - 1 /\ k - 1 < n \div 2 THEN 2 ELSE w0[k]]

\* lines 123-127: window
NpWindow(n) ==
    LET w0 == SetAt(Zeros(n), 0, 1)
        w1 == [k \in 1..n |-> IF 1 <= k - 1 /\ k - 1 < n \div 2 THEN 2 ELSE w0[k]]
    IN  IF n % 2 = 0 THEN SetAt(w1, n \div 2, 1) ELSE w1

\* lines 63-70
Fold(c) ==
    LET n == Len(c.re)
    IN  [re |-> [k \in 1..n |-> RefWindow(n)[k] * c.re[k]],
         im |-> [k \in 1..n |->
                   IF k - 1 >= 1 /\ k - 1 < n \div 2 THEN 2 * c.im[k] ELSE 0]]

\* lines 120-128: the real part of the cepstrum times the window
NpFold(c) ==
    LET n == Len(c.re)
    IN  [re |-> [k \in 1..n |-> NpWindow(n)[k] * c.re[k]],
         im |-> [k \in 1..n |-> 0]]

\* lines 72-82: the discrete Fourier transform of a complex sequence
Spectrum(c) ==
    LET n == Len(c.re)
    IN  [re |-> [k \in 1..n |->
                   SumSeq([j \in 1..n |->
                      Mul(c.re[j], CosAngle(k - 1, j - 1, n))
                      - Mul(c.im[j], -SinAngle(k - 1, j - 1, n))])],
         im |-> [k \in 1..n |->
                   SumSeq([j \in 1..n |->
                      Mul(c.re[j], -SinAngle(k - 1, j - 1, n))
                      + Mul(c.im[j], CosAngle(k - 1, j - 1, n))])]]

\* lines 84-89
Exponential(s) ==
    [re |-> [k \in 1..Len(s.re) |-> Mul(Exp(s.re[k]), Cos(s.im[k]))],
     im |-> [k \in 1..Len(s.re) |-> Mul(Exp(s.re[k]), Sin(s.im[k]))]]

\* the inverse transform without the division by n
Inverse_Unscaled(s, length) ==
    LET n == Len(s.re)
        all == [k \in 1..n |->
                  SumSeq([j \in 1..n |->
                      Mul(s.re[j], CosAngle(k - 1, j - 1, n))
                      - Mul(s.im[j], -SinAngle(k - 1, j - 1, n))])]
    IN  SubSeq(all, 1, MinOf(length, n))

\* lines 91-98: the real part of the inverse transform, cut to ir_length
Inverse(s, length) ==
    LET n == Len(s.re)
        all == [k \in 1..n |->
                  TruncDiv(SumSeq([j \in 1..n |->
                      Mul(s.re[j], CosAngle(k - 1, j - 1, n))
                      - Mul(s.im[j], -SinAngle(k - 1, j - 1, n))]), n)]
    IN  SubSeq(all, 1, MinOf(length, n))

SynthInit ==
    /\ impl \in {"reference", "numpy"}
    /\ ir_length \in {Pow2(e) : e \in 0..MaxLog2}
    /\ sample_rate \in {ir_length, 2 * ir_length}
    /\ interp_gains_dB = <<>>
    /\ log_mag = <<>>
    /\ full_log_mag = <<>>
    /\ cepstrum = [re |-> <<>>, im |-> <<>>]
    /\ mp_cepstrum = [re |-> <<>>, im |-> <<>>]
    /\ log_spec = [re |-> <<>>, im |-> <<>>]
    /\ mp_spec = [re |-> <<>>, im |-> <<>>]
    /\ ir = <<>>

\* the curve the synthesizer is called with
CurveInit ==
    /\ freqs \in CurveGrids
    /\ gains_dB \in [1..Len(freqs) -> CurveGains]
    /\ bf = 0
    /\ lo = 0
    /\ hi = 0
    /\ interp = Rat(0, 0)

\* dsp.py 24-48
Interpolate ==
    /\ pc = "synth"
    /\ impl = "reference"
    /\ interp_gains_dB' =
         [i \in 1..Half(ir_length) |->
            InterpGain(freqs, gains_dB, BinFreq(i - 1, sample_rate, ir_length))]
    /\ pc' = "magnitudes"
    /\ UNCHANGED <<impl, sample_rate, ir_length, log_mag, full_log_mag,
                   cepstrum, mp_cepstrum, log_spec, mp_spec, ir>>
    /\ UNCHANGED synth_frame

\* dsp.py 105-115
NpInterpolate ==
    /\ pc = "synth"
    /\ impl = "numpy"
    /\ interp_gains_dB' =
         [i \in 1..Half(ir_length) |->
            NpInterpGain(freqs, gains_dB, BinFreq(i - 1, sample_rate, ir_length))]
    /\ pc' = "magnitudes"
    /\ UNCHANGED <<impl, sample_rate, ir_length, log_mag, full_log_mag,
                   cepstrum, mp_cepstrum, log_spec, mp_spec, ir>>
    /\ UNCHANGED synth_frame

\* dsp.py 50-51, and 117-118
LogMagnitudes ==
    /\ pc = "magnitudes"
    /\ log_mag' = [i \in 1..Len(interp_gains_dB) |-> LogMagOf(interp_gains_dB[i])]
    /\ pc' = "mirror"
    /\ UNCHANGED <<impl, sample_rate, ir_length, interp_gains_dB, full_log_mag,
                   cepstrum, mp_cepstrum, log_spec, mp_spec, ir>>
    /\ UNCHANGED synth_frame

\* dsp.py 52, and 119
MirrorStep ==
    /\ pc = "mirror"
    /\ full_log_mag' = Mirror(log_mag)
    /\ pc' = "cepstrum"
    /\ UNCHANGED <<impl, sample_rate, ir_length, interp_gains_dB, log_mag,
                   cepstrum, mp_cepstrum, log_spec, mp_spec, ir>>
    /\ UNCHANGED synth_frame

\* dsp.py 54-61, and 120: np.fft.ifft
CepstrumStep ==
    /\ pc = "cepstrum"
    /\ cepstrum' = Cepstrum(full_log_mag)
    /\ pc' = "fold"
    /\ UNCHANGED <<impl, sample_rate, ir_length, interp_gains_dB, log_mag,
                   full_log_mag, mp_cepstrum, log_spec, mp_spec, ir>>
    /\ UNCHANGED synth_frame

\* dsp.py 63-70, and 120-128
FoldStep ==
    /\ pc = "fold"
    /\ mp_cepstrum' = IF impl = "numpy" THEN NpFold(cepstrum) ELSE Fold(cepstrum)
    /\ pc' = "spectrum"
    /\ UNCHANGED <<impl, sample_rate, ir_length, interp_gains_dB, log_mag,
                   full_log_mag, cepstrum, log_spec, mp_spec, ir>>
    /\ UNCHANGED synth_frame

\* dsp.py 72-82, and 130: np.fft.fft
SpectrumStep ==
    /\ pc = "spectrum"
    /\ log_spec' = Spectrum(mp_cepstrum)
    /\ pc' = "exp"
    /\ UNCHANGED <<impl, sample_rate, ir_length, interp_gains_dB, log_mag,
                   full_log_mag, cepstrum, mp_cepstrum, mp_spec, ir>>
    /\ UNCHANGED synth_frame

\* dsp.py 84-89, and 130: np.exp
ExpStep ==
    /\ pc = "exp"
    /\ mp_spec' = Exponential(log_spec)
    /\ pc' = "inverse"
    /\ UNCHANGED <<impl, sample_rate, ir_length, interp_gains_dB, log_mag,
                   full_log_mag, cepstrum, mp_cepstrum, log_spec, ir>>
    /\ UNCHANGED synth_frame

\* dsp.py 91-98, and 131-133
InverseStep ==
    /\ pc = "inverse"
    /\ ir' = Inverse(mp_spec, ir_length)
    /\ pc' = "synth_done"
    /\ UNCHANGED <<impl, sample_rate, ir_length, interp_gains_dB, log_mag,
                   full_log_mag, cepstrum, mp_cepstrum, log_spec, mp_spec>>
    /\ UNCHANGED synth_frame

(***************************************************************************)
(* normalize_legacy_args (cli.py 78-88).  An argument is the sequence of   *)
(* its characters.                                                         *)
(***************************************************************************)
\* cli.py 20-30: the keys of COMMANDS
COMMANDS ==
    {<<"e", "x", "p", "o", "r", "t">>,
     <<"q", "u", "i", "c", "k", "s", "t", "a", "r", "t">>,
     <<"e", "n", "a", "b", "l", "e">>,
     <<"d", "i", "s", "a", "b", "l", "e">>,
     <<"s", "t", "a", "t", "u", "s">>,
     <<"d", "o", "c", "t", "o", "r">>,
     <<"r", "o", "l", "l", "b", "a", "c", "k">>,
     <<"u", "n", "i", "n", "s", "t", "a", "l", "l">>,
     <<"t", "u", "i">>}

\* str.startswith
StartsWith(s, prefix) ==
    Len(s) >= Len(prefix) /\ SubSeq(s, 1, Len(prefix)) = prefix

\* a known command that is read as a legacy path
normalize_legacy_args_PathsOnly(raw) ==
    IF raw = <<>> THEN raw
    ELSE IF StartsWith(raw[1], <<"-">>) THEN raw
    ELSE << <<"e", "x", "p", "o", "r", "t">>,
            <<"-", "-", "p", "r", "o", "f", "i", "l", "e">>,
            raw[1] >> \o Tail(raw)

\* cli.py 78-88
normalize_legacy_args(raw) ==
    IF raw = <<>> THEN raw
    ELSE IF raw[1] \in COMMANDS \/ StartsWith(raw[1], <<"-">>) THEN raw
    ELSE << <<"e", "x", "p", "o", "r", "t">>,
            <<"-", "-", "p", "r", "o", "f", "i", "l", "e">>,
            raw[1] >> \o Tail(raw)

\* at most MaxArgs arguments
MaxArgs == 3

\* the first arguments tried: every command, options, paths, the empty
\* string, and strings that only resemble a command or an option
FirstArgs ==
    COMMANDS \cup
    {<<"-">>, <<"-", "-", "j", "s", "o", "n">>, <<"-", "h">>,
     <<"a", ".", "s", "w", "p", "r", "o", "j">>, <<>>,
     <<"e", "x", "p", "o", "r", "t", "s">>, <<"t", "u">>, <<"x", "-">>,
     <<"E", "x", "p", "o", "r", "t">>}

RestArgs ==
    {<<"-", "-", "o", "u", "t", "d", "i", "r">>, <<"o", "u", "t">>,
     <<"e", "x", "p", "o", "r", "t">>}

CliInit ==
    /\ argv \in {<<>>} \cup
                {<<f>> \o r : f \in FirstArgs, r \in SeqsUpTo(RestArgs, MaxArgs - 1)}
    /\ normalized = <<>>
    /\ renormalized = <<>>

\* cli.py 91-93: main normalizes the arguments
Normalize ==
    /\ pc = "cli"
    /\ normalized' = normalize_legacy_args(argv)
    /\ pc' = "normalized"
    /\ UNCHANGED <<argv, renormalized>>
    /\ UNCHANGED cli_frame

\* the normalized arguments given to normalize_legacy_args once more
NormalizeAgain ==
    /\ pc = "normalized"
    /\ renormalized' = normalize_legacy_args(normalized)
    /\ pc' = "renormalized"
    /\ UNCHANGED <<argv, normalized>>
    /\ UNCHANGED cli_frame

(***************************************************************************)
(* The state store (state/store.py).  A Python value and a JSON value are  *)
(* records with a tag t; a dict and a JSON object hold a function from     *)
(* their keys.  A file is absent, holds a JSON document, or holds bytes    *)
(* that json.load rejects.                                                 *)
(***************************************************************************)
NoneValue == [t |-> "None"]
BoolValue(b) == [t |-> "bool", v |-> b]
IntValue(n) == [t |-> "int", v |-> n]
StrValue(s) == [t |-> "str", v |-> s]
ListValue(items) == [t |-> "list", v |-> items]
TupleValue(items) == [t |-> "tuple", v |-> items]
DictValue(items) == [t |-> "dict", v |-> items]

Absent == [kind |-> "absent"]
Garbage == [kind |-> "garbage"]
JsonFile(doc) == [kind |-> "json", doc |-> doc]

\* json.dump: the JSON value written for a Python value
RECURSIVE ToJson(_)
ToJson(x) ==
    CASE x.t = "None" -> [t |-> "null"]
      [] x.t = "bool" -> [t |-> "boolean", v |-> x.v]
      [] x.t = "int" -> [t |-> "number", v |-> x.v]
      [] x.t = "str" -> [t |-> "string", v |-> x.v]
      [] x.t \in {"list", "tuple"} ->
            [t |-> "array", v |-> [k \in 1..Len(x.v) |-> ToJson(x.v[k])]]
      [] x.t = "dict" ->
            [t |-> "object", v |-> [k \in DOMAIN x.v |-> ToJson(x.v[k])]]

\* json.load: the Python value read from a JSON value
RECURSIVE FromJson(_)
FromJson(j) ==
    CASE j.t = "null" -> NoneValue
      [] j.t = "boolean" -> BoolValue(j.v)
      [] j.t = "number" -> IntValue(j.v)
      [] j.t = "string" -> StrValue(j.v)
      [] j.t = "array" -> ListValue([k \in 1..Len(j.v) |-> FromJson(j.v[k])])
      [] j.t = "object" -> DictValue([k \in DOMAIN j.v |-> FromJson(j.v[k])])

\* store.py 9-10: the time of the n-th call, as text
Timestamps == <<"T1", "T2", "T3", "T4", "T5", "T6">>
_now_iso(n) == StrValue(Timestamps[n])

\* store.py 13-25, _now_iso being called for the n-th time
default_state(n) ==
    [version |-> IntValue(1),
     active_profile_id |-> NoneValue,
     previous_default_sink |-> NoneValue,
     default_sink_switched |-> BoolValue(FALSE),
     runtime |-> DictValue([service_enabled |-> BoolValue(FALSE),
                         service_active |-> BoolValue(FALSE)]),
     created_files |-> ListValue(<<>>),
     updated_at |-> _now_iso(n)]

\* dict.update
Update(base, other) ==
    [k \in DOMAIN base \cup DOMAIN other |->
        IF k \in DOMAIN other THEN other[k] ELSE base[k]]

\* base.update(data) of line 37 raises: data is not a dict and not an empty
\* list or string
UpdateRaises(doc) ==
    /\ doc.t # "object"
    /\ ~(doc.t = "array" /\ doc.v = <<>>)
    /\ ~(doc.t = "string" /\ doc.v = "")

\* load_state returning the document as it is, without the default keys
load_state_NoMerge(file, n) ==
    IF file.kind = "absent" THEN [state |-> default_state(n + 1), clock |-> n + 1]
    ELSE IF file.kind = "garbage" THEN [state |-> default_state(n + 1), clock |-> n + 1]
    ELSE IF UpdateRaises(file.doc) THEN [state |-> default_state(n + 2), clock |-> n + 2]
    ELSE IF file.doc.t = "object"
         THEN [state |-> FromJson(file.doc).v, clock |-> n + 1]
    ELSE [state |-> default_state(n + 1), clock |-> n + 1]

\* store.py 28-40: the state returned and the calls of _now_iso made, the
\* clock being at n
load_state(file, n) ==
    IF file.kind = "absent" THEN [state |-> default_state(n + 1), clock |-> n + 1]
    ELSE IF file.kind = "garbage" THEN [state |-> default_state(n + 1), clock |-> n + 1]
    ELSE IF UpdateRaises(file.doc) THEN [state |-> default_state(n + 2), clock |-> n + 2]
    ELSE IF file.doc.t = "object"
         THEN [state |-> Update(default_state(n + 1), FromJson(file.doc).v),
               clock |-> n + 1]
    ELSE [state |-> default_state(n + 1), clock |-> n + 1]

\* store.py 50-53: the payload of save_state
Payload(st, n) == Update(st, [updated_at |-> _now_iso(n)])

\* the number of entries of created_files is at most MaxCreated
MaxCreated == 1

\* the states the commands build: a loaded state with the keys they assign,
\* with or without updated_at and a key of an older version
CommandStates ==
    {Update([k \in (DOMAIN default_state(1)) \ drop |-> default_state(1)[k]],
            Update(extra,
                   [active_profile_id |-> id,
                    default_sink_switched |-> BoolValue(sw),
                    runtime |-> DictValue([service_enabled |-> BoolValue(en),
                                        service_active |-> BoolValue(en)]),
                    created_files |-> ListValue(files)])) :
        drop \in {{}, {"updated_at"}, {"version", "previous_default_sink"}},
        extra \in {<<>>, [legacy |-> IntValue(0)]},
        id \in {NoneValue, StrValue("abc123")},
        sw \in BOOLEAN,
        en \in BOOLEAN,
        files \in SeqsUpTo({StrValue("/tmp/service")}, MaxCreated)}

\* what is at the path of the state file before the first call
StateFiles ==
    {Absent, Garbage,
     JsonFile([t |-> "array", v |-> <<>>]),
     JsonFile([t |-> "array", v |-> <<[t |-> "number", v |-> 1]>>]),
     JsonFile([t |-> "null"]),
     JsonFile(ToJson(DictValue([active_profile_id |-> StrValue("old")])))}

StoreInit ==
    /\ state \in CommandStates
    /\ state_file \in StateFiles
    /\ tmp_file = Absent
    /\ clock = 0
    /\ saved = <<>>
    /\ loaded = <<>>
    /\ previous_file = Absent
    /\ observed = {}

\* store.py 28-40, called before or after save_state
LoadState ==
    /\ pc \in {"store", "store_saved"}
    /\ loaded' = load_state(state_file, clock).state
    /\ clock' = load_state(state_file, clock).clock
    /\ pc' = IF pc = "store" THEN "store_probed" ELSE "store_loaded"
    /\ UNCHANGED <<state, state_file, tmp_file, saved, previous_file, observed>>
    /\ UNCHANGED store_frame

\* a file that holds the beginning of a JSON text
Partial == [kind |-> "garbage", written |-> "part"]

\* save_state that opens the state file itself for writing
SaveOpen_InPlace ==
    /\ pc = "store"
    /\ clock' = clock + 1
    /\ saved' = Payload(state, clock + 1)
    /\ previous_file' = state_file
    /\ state_file' = Partial
    /\ pc' = "store_writing"
    /\ UNCHANGED <<state, tmp_file, loaded, observed>>
    /\ UNCHANGED store_frame

\* store.py 50-53 and 44-45: save_state up to the first write into the file
\* opened at the path with the suffix .tmp
SaveOpen ==
    /\ pc = "store"
    /\ clock' = clock + 1
    /\ saved' = Payload(state, clock + 1)
    /\ previous_file' = state_file
    /\ tmp_file' = Partial
    /\ pc' = "store_writing"
    /\ UNCHANGED <<state, state_file, loaded, observed>>
    /\ UNCHANGED store_frame

\* store.py 45-46: json.dump up to the end of the with block
SaveWrite ==
    /\ pc = "store_writing"
    /\ tmp_file' = JsonFile(ToJson(DictValue(saved)))
    /\ pc' = "store_tmp"
    /\ UNCHANGED <<state, state_file, clock, saved, loaded, previous_file,
                   observed>>
    /\ UNCHANGED store_frame

\* store.py 47 and 55: tmp.replace(path), and save_state returns
SaveReplace ==
    /\ pc = "store_tmp"
    /\ state_file' = tmp_file
    /\ tmp_file' = Absent
    /\ pc' = "store_saved"
    /\ UNCHANGED <<state, clock, saved, loaded, previous_file, observed>>
    /\ UNCHANGED store_frame

\* status_cmd.py 12-13: load_state (store.py 28-40) in a process that does
\* not take the lock, while save_state is between two of its steps or has
\* just returned
StatusLoad ==
    /\ pc \in {"store_writing", "store_tmp", "store_saved"}
    /\ observed' = observed \cup
          {[file |-> state_file, state |-> load_state(state_file, 0).state]}
    /\ pc' = pc
    /\ UNCHANGED <<state, state_file, tmp_file, clock, saved, loaded,
                   previous_file>>
    /\ UNCHANGED store_frame

(***************************************************************************)
(* quickstart (commands/quickstart_cmd.py 36-137).  What a collaborator    *)
(* answers is chosen when it is called; the name of every collaborator     *)
(* that answered with success is kept in facts.                            *)
(***************************************************************************)
\* constants.py 6-11
ExitCode == [OK |-> 0, USAGE |-> 2, RUNTIME_ERROR |-> 10]

\* constants.py 15
VIRTUAL_SINK == "swproj2eq_in"

\* the sinks of the system; "" stands for None
Sinks == {"alsa_output.test"}

ProfileIds == {"abc123", "def456"}

Call(fn, arg) == [fn |-> fn, arg |-> arg]

\* a Python str or None from a name or ""
OrNone(name) == IF name = "" THEN NoneValue ELSE StrValue(name)

\* the truth value of state.get(key)
Truthy(st, key) ==
    /\ key \in DOMAIN st
    /\ st[key] \notin {NoneValue, StrValue(""), BoolValue(FALSE)}

\* what load_state returns: the default state, the state an earlier
\* quickstart saved after it switched the default sink, the state disable
\* saved after that
LoadedStates ==
    {default_state(1),
     Update(default_state(1),
            [active_profile_id |-> StrValue("old"),
             previous_default_sink |-> StrValue("alsa_output.test"),
             default_sink_switched |-> BoolValue(TRUE),
             runtime |-> DictValue([service_enabled |-> BoolValue(TRUE),
                                    service_active |-> BoolValue(TRUE)])]),
     Update(default_state(1),
            [active_profile_id |-> StrValue("old"),
             previous_default_sink |-> StrValue("alsa_output.test")])}

\* lines 42-48: the calls of fail_with_rollback
fail_with_rollback(switched, previous) ==
    (IF switched /\ previous # "" THEN <<Call("set_default_sink", previous)>>
     ELSE <<>>)
    \o <<Call("stop_disable", ""), Call("unload_virtual_sink", VIRTUAL_SINK)>>

\* the switch also taken when only --yes is given
ShouldSwitch_YesSwitches(a, reply) ==
    a.set_default \/ a.yes \/ reply \in {"y", "yes"}

\* lines 115-117 and common.py 17-24: should_switch, reply being what the
\* user types at the prompt, "eof" for the end of the input
ShouldSwitch(a, reply) ==
    a.set_default \/ (~a.yes /\ reply \in {"y", "yes"})

QuickInit ==
    /\ args \in [set_default : BOOLEAN, yes : BOOLEAN, force : BOOLEAN]
    /\ facts = {}
    /\ default_sink = ""
    /\ run_state = <<>>
    /\ profile_id = ""
    /\ should_switch = FALSE
    /\ switched_default = FALSE
    /\ previous_sink_for_rollback = ""
    /\ calls = <<>>
    /\ saved_states = <<>>
    /\ exit_code = -1

\* lines 50-53
QuickDetect ==
    /\ pc = "quick"
    /\ \E ok \in SUBSET {"detect_pipewire", "detect_systemd_user", "detect_camilladsp"} :
          /\ facts' = facts \cup ok
          /\ IF Cardinality(ok) = 3
             THEN pc' = "q_conflicts" /\ exit_code' = exit_code
             ELSE pc' = "q_done" /\ exit_code' = ExitCode.RUNTIME_ERROR
    /\ UNCHANGED <<args, default_sink, run_state, profile_id, should_switch,
                   switched_default, previous_sink_for_rollback, calls,
                   saved_states>>
    /\ UNCHANGED quick_frame

\* lines 55-60
QuickConflicts ==
    /\ pc = "q_conflicts"
    /\ \E active \in SUBSET {"is_easyeffects_active", "is_camilla_active"} :
          /\ facts' = facts \cup active
          /\ IF active # {} /\ ~args.force
             THEN pc' = "q_done" /\ exit_code' = ExitCode.RUNTIME_ERROR
             ELSE pc' = "q_profile" /\ exit_code' = exit_code
    /\ UNCHANGED <<args, default_sink, run_state, profile_id, should_switch,
                   switched_default, previous_sink_for_rollback, calls,
                   saved_states>>
    /\ UNCHANGED quick_frame

\* lines 62-66
QuickProfile ==
    /\ pc = "q_profile"
    /\ \E exists \in BOOLEAN :
          IF exists
          THEN /\ facts' = facts \cup {"ensure_existing_file"}
               /\ pc' = "q_sink"
               /\ exit_code' = exit_code
          ELSE /\ facts' = facts
               /\ pc' = "q_done"
               /\ exit_code' = ExitCode.USAGE
    /\ UNCHANGED <<args, default_sink, run_state, profile_id, should_switch,
                   switched_default, previous_sink_for_rollback, calls,
                   saved_states>>
    /\ UNCHANGED quick_frame

\* lines 68-71
QuickSink ==
    /\ pc = "q_sink"
    /\ \E sink \in Sinks \cup {""} :
          /\ default_sink' = sink
          /\ IF sink # ""
             THEN /\ facts' = facts \cup {"get_default_sink"}
                  /\ pc' = "q_checkpoint"
                  /\ exit_code' = exit_code
             ELSE /\ facts' = facts
                  /\ pc' = "q_done"
                  /\ exit_code' = ExitCode.RUNTIME_ERROR
    /\ UNCHANGED <<args, run_state, profile_id, should_switch,
                   switched_default, previous_sink_for_rollback, calls,
                   saved_states>>
    /\ UNCHANGED quick_frame

\* QuickCheckpoint that fills in previous_default_sink without saving
QuickCheckpoint_NoSave ==
    /\ pc = "q_checkpoint"
    /\ \E st \in LoadedStates :
          IF ~Truthy(st, "previous_default_sink")
          THEN /\ run_state' =
                    Update(st, [previous_default_sink |-> StrValue(default_sink)])
               /\ saved_states' = saved_states
          ELSE /\ run_state' = st
               /\ saved_states' = saved_states
    /\ pc' = "q_export"
    /\ UNCHANGED <<args, facts, default_sink, profile_id, should_switch,
                   switched_default, previous_sink_for_rollback, calls,
                   exit_code>>
    /\ UNCHANGED quick_frame

\* lines 74-77
QuickCheckpoint ==
    /\ pc = "q_checkpoint"
    /\ \E st \in LoadedStates :
          IF ~Truthy(st, "previous_default_sink")
          THEN /\ run_state' =
                    Update(st, [previous_default_sink |-> StrValue(default_sink)])
               /\ saved_states' = Append(saved_states, run_state')
          ELSE /\ run_state' = st
               /\ saved_states' = saved_states
    /\ pc' = "q_export"
    /\ UNCHANGED <<args, facts, default_sink, profile_id, should_switch,
                   switched_default, previous_sink_for_rollback, calls,
                   exit_code>>
    /\ UNCHANGED quick_frame

\* lines 79-95
QuickExport ==
    /\ pc = "q_export"
    /\ \E id \in ProfileIds, ok \in BOOLEAN :
          /\ profile_id' = id
          /\ IF ok
             THEN /\ facts' = facts \cup {"run_export"}
                  /\ pc' = "q_vsink"
                  /\ exit_code' = exit_code
             ELSE /\ facts' = facts
                  /\ pc' = "q_done"
                  /\ exit_code' = ExitCode.RUNTIME_ERROR
    /\ UNCHANGED <<args, default_sink, run_state, should_switch,
                   switched_default, previous_sink_for_rollback, calls,
                   saved_states>>
    /\ UNCHANGED quick_frame

\* lines 97-99
QuickVirtualSink ==
    /\ pc = "q_vsink"
    /\ calls' = Append(calls, Call("ensure_virtual_sink", VIRTUAL_SINK))
    /\ \E ok \in BOOLEAN :
          IF ok
          THEN /\ facts' = facts \cup {"ensure_virtual_sink"}
               /\ pc' = "q_service"
               /\ exit_code' = exit_code
          ELSE /\ facts' = facts
               /\ pc' = "q_done"
               /\ exit_code' = ExitCode.RUNTIME_ERROR
    /\ UNCHANGED <<args, default_sink, run_state, profile_id, should_switch,
                   switched_default, previous_sink_for_rollback, saved_states>>
    /\ UNCHANGED quick_frame

\* lines 101-108
QuickService ==
    /\ pc = "q_service"
    /\ \E reload \in BOOLEAN, start \in BOOLEAN, active \in BOOLEAN, sink \in BOOLEAN :
          /\ facts' = facts
                \cup (IF reload THEN {"daemon_reload"} ELSE {})
                \cup (IF reload /\ start THEN {"enable_start"} ELSE {})
                \cup (IF reload /\ start /\ active THEN {"is_active"} ELSE {})
                \cup (IF reload /\ start /\ active /\ sink THEN {"sink_exists"} ELSE {})
          /\ calls' = calls
                \o <<Call("write_service_file", profile_id), Call("daemon_reload", "")>>
                \o (IF reload THEN <<Call("enable_start", "")>> ELSE <<>>)
                \o (IF reload /\ start /\ active /\ sink THEN <<>>
                    ELSE fail_with_rollback(switched_default,
                                            previous_sink_for_rollback))
          /\ IF reload /\ start /\ active /\ sink
             THEN pc' = "q_switch" /\ exit_code' = exit_code
             ELSE pc' = "q_done" /\ exit_code' = ExitCode.RUNTIME_ERROR
    /\ UNCHANGED <<args, default_sink, run_state, profile_id, should_switch,
                   switched_default, previous_sink_for_rollback, saved_states>>
    /\ UNCHANGED quick_frame

\* lines 110-113: the assignments to state after the health check
Activated(st, id, enabled) ==
    Update(st,
           [active_profile_id |-> StrValue(id),
            runtime |-> DictValue(Update(st["runtime"].v,
                          [service_enabled |-> BoolValue(enabled),
                           service_active |-> BoolValue(TRUE)])),
            created_files |-> ListValue(<<StrValue("service_path"),
                                          StrValue("outdir")>>)])

\* lines 110-131
QuickSwitch ==
    /\ pc = "q_switch"
    /\ \E enabled \in BOOLEAN, reply \in {"y", "yes", "n", "eof"},
          current \in Sinks \cup {""}, ok \in BOOLEAN, stuck \in BOOLEAN :
          /\ should_switch' = ShouldSwitch(args, reply)
          /\ IF should_switch'
             THEN /\ previous_sink_for_rollback' = current
                  /\ run_state' =
                       Update(Update(Activated(run_state, profile_id, enabled),
                                     [previous_default_sink |-> OrNone(current)]),
                              IF ok /\ stuck
                              THEN [default_sink_switched |-> BoolValue(TRUE)]
                              ELSE <<>>)
                  /\ switched_default' = ok
                  /\ facts' = facts
                       \cup (IF enabled THEN {"is_enabled"} ELSE {})
                       \cup (IF ~args.set_default /\ ~args.yes /\ reply \in {"y", "yes"}
                             THEN {"reply_yes"} ELSE {})
                       \cup (IF ok THEN {"set_default_sink"} ELSE {})
                       \cup (IF ok /\ stuck THEN {"switch_stuck"} ELSE {})
                  /\ calls' = calls
                       \o <<Call("set_default_sink", VIRTUAL_SINK)>>
                       \o (IF ok /\ stuck THEN <<>>
                           ELSE fail_with_rollback(ok, current))
                  /\ IF ok /\ stuck
                     THEN pc' = "q_save" /\ exit_code' = exit_code
                     ELSE pc' = "q_done" /\ exit_code' = ExitCode.RUNTIME_ERROR
             ELSE /\ previous_sink_for_rollback' = previous_sink_for_rollback
                  /\ run_state' =
                       Update(Activated(run_state, profile_id, enabled),
                              [default_sink_switched |-> BoolValue(FALSE),
                               previous_default_sink |->
                                  IF run_state["previous_default_sink"] = NoneValue
                                  THEN StrValue(default_sink)
                                  ELSE run_state["previous_default_sink"]])
                  /\ switched_default' = switched_default
                  /\ facts' = facts
                       \cup (IF enabled THEN {"is_enabled"} ELSE {})
                       \cup (IF ~args.set_default /\ ~args.yes /\ reply \in {"y", "yes"}
                             THEN {"reply_yes"} ELSE {})
                  /\ calls' = calls
                  /\ pc' = "q_save"
                  /\ exit_code' = exit_code
    /\ UNCHANGED <<args, default_sink, profile_id, saved_states>>
    /\ UNCHANGED quick_frame

\* lines 133-137
QuickSave ==
    /\ pc = "q_save"
    /\ saved_states' = Append(saved_states, run_state)
    /\ exit_code' = ExitCode.OK
    /\ pc' = "q_done"
    /\ UNCHANGED <<args, facts, default_sink, run_state, profile_id,
                   should_switch, switched_default,
                   previous_sink_for_rollback, calls>>
    /\ UNCHANGED quick_frame

(***************************************************************************)
(* state_lock (state/locks.py 9-18) around the state-changing commands,    *)
(* each command a process of its own.                                      *)
(***************************************************************************)
\* how many processes run at once
MaxProcs == 3

Procs == 1..MaxProcs

\* the commands whose run is inside "with state_lock()"
LockingCommands == {"quickstart", "enable", "disable", "uninstall"}

LockInit ==
    /\ command \in [Procs -> LockingCommands]
    /\ lock_pc = [p \in Procs |-> "ensure_dirs"]
    /\ state_dir_exists \in BOOLEAN
    /\ lock_inode = 0
    /\ fd = [p \in Procs |-> 0]
    /\ flock_holder = <<>>

\* locks.py 11: ensure_dirs()
EnsureDirs(p) ==
    /\ pc = "lock"
    /\ lock_pc[p] = "ensure_dirs"
    /\ state_dir_exists' = TRUE
    /\ lock_pc' = [lock_pc EXCEPT ![p] = "open"]
    /\ UNCHANGED <<pc, command, lock_inode, fd, flock_holder>>
    /\ UNCHANGED lock_frame

\* locks.py 12-13: lf.open("w") opens the file at the path, creating it when
\* there is none; FileNotFoundError when the directory is gone
OpenLock(p) ==
    /\ pc = "lock"
    /\ lock_pc[p] = "open"
    /\ IF ~state_dir_exists
       THEN /\ lock_pc' = [lock_pc EXCEPT ![p] = "raised"]
            /\ UNCHANGED <<lock_inode, fd, flock_holder>>
       ELSE IF lock_inode = 0
       THEN /\ flock_holder' = Append(flock_holder, 0)
            /\ lock_inode' = Len(flock_holder) + 1
            /\ fd' = [fd EXCEPT ![p] = Len(flock_holder) + 1]
            /\ lock_pc' = [lock_pc EXCEPT ![p] = "flock"]
       ELSE /\ fd' = [fd EXCEPT ![p] = lock_inode]
            /\ lock_pc' = [lock_pc EXCEPT ![p] = "flock"]
            /\ UNCHANGED <<lock_inode, flock_holder>>
    /\ UNCHANGED <<pc, command, state_dir_exists>>
    /\ UNCHANGED lock_frame

\* locks.py 14: fcntl.flock(f.fileno(), fcntl.LOCK_EX) returns once no other
\* open file holds the lock of the same file
Flock(p) ==
    /\ pc = "lock"
    /\ lock_pc[p] = "flock"
    /\ flock_holder[fd[p]] = 0
    /\ flock_holder' = [flock_holder EXCEPT ![fd[p]] = p]
    /\ lock_pc' = [lock_pc EXCEPT ![p] = "body"]
    /\ UNCHANGED <<pc, command, state_dir_exists, lock_inode, fd>>
    /\ UNCHANGED lock_frame

\* locks.py 16: the body of the with statement.  uninstall_cmd.py 35 removes
\* the directory of the lock file, and with it the name of the file the
\* process holds open and locked; the other commands leave it alone
Body(p) ==
    /\ pc = "lock"
    /\ lock_pc[p] = "body"
    /\ IF command[p] = "uninstall"
       THEN state_dir_exists' = FALSE /\ lock_inode' = 0
       ELSE UNCHANGED <<state_dir_exists, lock_inode>>
    /\ lock_pc' = [lock_pc EXCEPT ![p] = "return"]
    /\ UNCHANGED <<pc, command, fd, flock_holder>>
    /\ UNCHANGED lock_frame

\* locks.py 17-18 and the end of line 13: unlock, close
Unlock(p) ==
    /\ pc = "lock"
    /\ lock_pc[p] = "return"
    /\ flock_holder' = [flock_holder EXCEPT ![fd[p]] = 0]
    /\ fd' = [fd EXCEPT ![p] = 0]
    /\ lock_pc' = [lock_pc EXCEPT ![p] = "done"]
    /\ UNCHANGED <<pc, command, state_dir_exists, lock_inode>>
    /\ UNCHANGED lock_frame

(***************************************************************************)
(* The commands quickstart, enable and disable run one after the other on  *)
(* one system (commands/quickstart_cmd.py, enable_cmd.py, disable_cmd.py). *)
(* A command is one step: it holds state_lock from its first line to its   *)
(* return.  The audio server and systemd do what the calls of the command  *)
(* ask for, except for the one call that env.fault makes fail.             *)
(***************************************************************************)
\* how many commands run in a row
MaxCommands == 3

\* the sinks of the hardware
HardwareSinks == Sinks \cup {"bluez_output.test"}

\* the processes that are not the tool's own service
ForeignProcesses == {"easyeffects", "camilladsp"}

\* the calls that can fail in a command, "none" for a run without a failure,
\* "stick" for a set-default-sink that returns 0 and has no effect
Faults ==
    {"none", "detect", "profile", "export", "virtual_sink", "daemon_reload",
     "enable_start", "health", "set_default_sink", "stick"}

\* what the surroundings of a command decide: the call that fails, what the
\* user types at the prompt, and the sink the audio server makes the default
\* when the choice is its own
Envs == [fault : Faults, reply : {"y", "n"}, server_pick : HardwareSinks]

\* the options of quickstart and enable; profile_id is "" when not given
Options ==
    [set_default : BOOLEAN, yes : BOOLEAN, force : BOOLEAN,
     profile_id : {"", "abc123"}]

\* detect.py 129-133: pgrep -x easyeffects
is_easyeffects_active(sys) == "easyeffects" \in sys.foreign

\* detect.py 136-140: pgrep -f camilladsp matches every command line that
\* holds the word, the runner script of the service (service.py 10-20:
\* exec camilladsp "<config>") among them
is_camilla_active(sys) == "camilladsp" \in sys.foreign \/ sys.active

\* routing.py 48-51, the call succeeding
set_default_sink(sys, name) == [sys EXCEPT !.default = name]

\* routing.py 12-28, the call succeeding
ensure_virtual_sink(sys) == [sys EXCEPT !.sinks = @ \cup {VIRTUAL_SINK}]

\* routing.py 31-45: the module of the virtual sink is unloaded; a default
\* sink that has gone is replaced by the audio server
unload_virtual_sink(sys, pick) ==
    [sys EXCEPT !.sinks = @ \ {VIRTUAL_SINK},
                !.default = IF @ = VIRTUAL_SINK THEN pick ELSE @]

\* service.py 49-51, the call succeeding
enable_start(sys) == [sys EXCEPT !.enabled = TRUE, !.active = TRUE]

\* service.py 54-57
stop_disable(sys) == [sys EXCEPT !.enabled = FALSE, !.active = FALSE]

\* store.py 28-40 and 43-55 between two commands
LoadSaved(file) == load_state(file, 0).state
SaveAs(st) == JsonFile(ToJson(DictValue(Payload(st, 1))))

\* what a command returns and leaves behind; stage is the call it returned at
Outcome(stage, code, sys, file, switched) ==
    [stage |-> stage, exit_code |-> code, system |-> sys, state_json |-> file,
     switched |-> switched]

\* quickstart_cmd.py 42-48: the system after fail_with_rollback
Rollback(sys, switched, previous, pick) ==
    unload_virtual_sink(
        stop_disable(IF switched /\ previous # ""
                     THEN set_default_sink(sys, previous) ELSE sys),
        pick)

\* quickstart_cmd.py 36-137: run(args) on the system sys with the state file
\* file
quickstart(sys, file, a, env) ==
    LET sink_at_start == sys.default
        at_start == LoadSaved(file)
        checkpoint ==
            IF ~Truthy(at_start, "previous_default_sink")
            THEN Update(at_start, [previous_default_sink |-> StrValue(sink_at_start)])
            ELSE at_start
        file1 ==
            IF ~Truthy(at_start, "previous_default_sink")
            THEN SaveAs(checkpoint) ELSE file
        sys1 == ensure_virtual_sink(sys)
        sys2 == [sys1 EXCEPT !.service_file = TRUE]
        sys3 == enable_start(sys2)
        activated == Activated(checkpoint, "abc123", sys3.enabled)
        previous == sys3.default
        RolledBack(stage, s, switched) ==
            Outcome(stage, ExitCode.RUNTIME_ERROR,
                    Rollback(s, switched, previous, env.server_pick), file1, FALSE)
    IN  IF env.fault = "detect"
        THEN Outcome("detect", ExitCode.RUNTIME_ERROR, sys, file, FALSE)
        ELSE IF (is_easyeffects_active(sys) \/ is_camilla_active(sys)) /\ ~a.force
        THEN Outcome("conflict", ExitCode.RUNTIME_ERROR, sys, file, FALSE)
        ELSE IF env.fault = "profile"
        THEN Outcome("profile", ExitCode.USAGE, sys, file, FALSE)
        ELSE IF env.fault = "export"
        THEN Outcome("export", ExitCode.RUNTIME_ERROR, sys, file1, FALSE)
        ELSE IF env.fault = "virtual_sink" /\ VIRTUAL_SINK \notin sys.sinks
        THEN Outcome("virtual_sink", ExitCode.RUNTIME_ERROR, sys, file1, FALSE)
        ELSE IF env.fault = "daemon_reload"
        THEN RolledBack("daemon_reload", sys2, FALSE)
        ELSE IF env.fault = "enable_start"
        THEN RolledBack("enable_start", sys2, FALSE)
        ELSE IF env.fault = "health"
        THEN RolledBack("health", [sys3 EXCEPT !.active = FALSE], FALSE)
        ELSE IF ShouldSwitch(a, env.reply)
        THEN IF env.fault = "set_default_sink"
             THEN RolledBack("set_default_sink", sys3, FALSE)
             ELSE IF env.fault = "stick"
             THEN RolledBack("stick", set_default_sink(sys3, env.server_pick), TRUE)
             ELSE Outcome("ok", ExitCode.OK, set_default_sink(sys3, VIRTUAL_SINK),
                          SaveAs(Update(activated,
                                   [previous_default_sink |-> StrValue(previous),
                                    default_sink_switched |-> BoolValue(TRUE)])),
                          TRUE)
        ELSE Outcome("ok", ExitCode.OK, sys3,
                     SaveAs(Update(activated,
                              [default_sink_switched |-> BoolValue(FALSE),
                               previous_default_sink |->
                                  IF activated["previous_default_sink"] = NoneValue
                                  THEN StrValue(sink_at_start)
                                  ELSE activated["previous_default_sink"]])),
                     FALSE)

\* enable_cmd.py 15-74: run(args)
enable(sys, file, a, env) ==
    LET st == LoadSaved(file)
        chosen_id ==
            IF a.profile_id # "" THEN StrValue(a.profile_id)
            ELSE st["active_profile_id"]
        sys1 == ensure_virtual_sink(sys)
        sys2 == [sys1 EXCEPT !.service_file = TRUE]
        sys3 == enable_start(sys2)
        prev == sys3.default
        activated ==
            Update(st,
                   [active_profile_id |-> chosen_id,
                    runtime |-> DictValue(Update(st["runtime"].v,
                                  [service_enabled |-> BoolValue(sys3.enabled),
                                   service_active |-> BoolValue(TRUE)]))])
    IN  IF chosen_id \in {NoneValue, StrValue("")}
        THEN Outcome("no_profile", ExitCode.USAGE, sys, file, FALSE)
        ELSE IF env.fault = "profile"
        THEN Outcome("profile", ExitCode.USAGE, sys, file, FALSE)
        ELSE IF (is_easyeffects_active(sys) \/ is_camilla_active(sys)) /\ ~a.force
        THEN Outcome("conflict", ExitCode.RUNTIME_ERROR, sys, file, FALSE)
        ELSE IF env.fault = "export"
        THEN Outcome("export", ExitCode.RUNTIME_ERROR, sys, file, FALSE)
        ELSE IF env.fault = "virtual_sink" /\ VIRTUAL_SINK \notin sys.sinks
        THEN Outcome("virtual_sink", ExitCode.RUNTIME_ERROR, sys, file, FALSE)
        ELSE IF env.fault = "daemon_reload"
        THEN Outcome("daemon_reload", ExitCode.RUNTIME_ERROR, sys2, file, FALSE)
        ELSE IF env.fault = "enable_start"
        THEN Outcome("enable_start", ExitCode.RUNTIME_ERROR, sys2, file, FALSE)
        ELSE IF env.fault = "health"
        THEN Outcome("health", ExitCode.RUNTIME_ERROR,
                     [sys3 EXCEPT !.active = FALSE], file, FALSE)
        ELSE IF ShouldSwitch(a, env.reply)
        THEN IF env.fault = "set_default_sink"
             THEN Outcome("set_default_sink", ExitCode.RUNTIME_ERROR, sys3, file,
                          FALSE)
             ELSE Outcome("ok", ExitCode.OK,
                          set_default_sink(sys3,
                              IF env.fault = "stick" THEN env.server_pick
                              ELSE VIRTUAL_SINK),
                          SaveAs(Update(activated,
                                   [previous_default_sink |-> StrValue(prev),
                                    default_sink_switched |-> BoolValue(TRUE)])),
                          env.fault # "stick")
        ELSE Outcome("ok", ExitCode.OK, sys3, SaveAs(activated), FALSE)

\* disable_cmd.py 11-27: run(args)
disable(sys, file, pick) ==
    LET st == LoadSaved(file)
        sys1 == stop_disable(sys)
        previous == st["previous_default_sink"]
        sys2 ==
            IF /\ Truthy(st, "default_sink_switched")
               /\ Truthy(st, "previous_default_sink")
               /\ StrValue(sys1.default) # previous
            THEN set_default_sink(sys1, previous.v)
            ELSE sys1
    IN  Outcome("ok", ExitCode.OK, sys2,
                SaveAs(Update(st,
                         [runtime |-> DictValue(Update(st["runtime"].v,
                                       [service_enabled |-> BoolValue(FALSE),
                                        service_active |-> BoolValue(sys2.active)])),
                          default_sink_switched |-> BoolValue(FALSE)])),
                FALSE)

\* a fresh login: no virtual sink, no service, an empty state directory
SessInit ==
    /\ system \in [default : HardwareSinks, sinks : {HardwareSinks},
                   service_file : {FALSE}, enabled : {FALSE}, active : {FALSE},
                   foreign : SUBSET ForeignProcesses]
    /\ state_json = Absent
    /\ last_run = <<>>
    /\ ran = 0
    /\ course = "successes"
    /\ original_sink = ""

\* the command cmd has returned r: what it leaves behind, and what is kept
\* of the run
Finished(cmd, force, r) ==
    /\ system' = r.system
    /\ state_json' = r.state_json
    /\ last_run' = [command |-> cmd, force |-> force, stage |-> r.stage,
                    exit_code |-> r.exit_code, switched |-> r.switched,
                    before |-> system, file_before |-> state_json]
    /\ ran' = ran + 1
    /\ course' =
          IF course = "successes" /\ cmd # "disable"
             /\ r.exit_code = ExitCode.OK
          THEN "successes"
          ELSE IF course = "successes" /\ cmd = "disable" THEN "disabled"
          ELSE "other"
    /\ original_sink' =
          IF original_sink = "" /\ r.switched THEN system.default
          ELSE original_sink
    /\ pc' = pc
    /\ UNCHANGED sess_frame

\* swproj2eq quickstart <file.swproj> [--set-default] [--yes] [--force]
RunQuickstart ==
    /\ pc = "sess"
    /\ ran < MaxCommands
    /\ \E a \in Options, env \in Envs :
          /\ a.profile_id = ""
          /\ \E r \in {quickstart(system, state_json, a, env)} :
                Finished("quickstart", a.force, r)

\* swproj2eq enable [profile_id] [--set-default] [--yes] [--force]
RunEnable ==
    /\ pc = "sess"
    /\ ran < MaxCommands
    /\ \E a \in Options, env \in Envs :
          \E r \in {enable(system, state_json, a, env)} :
             Finished("enable", a.force, r)

\* swproj2eq disable
RunDisable ==
    /\ pc = "sess"
    /\ ran < MaxCommands
    /\ \E pick \in HardwareSinks :
          \E r \in {disable(system, state_json, pick)} :
             Finished("disable", FALSE, r)

(***************************************************************************)
(* The specifications: a call of parse_swproj, the interpolation of a bin, *)
(* a call of compute_preamp_db.                                            *)
(***************************************************************************)
vars == <<parser_vars, interp_vars, preamp_vars, later_vars>>

Init == ParserInit /\ InterpIdle /\ PreampIdle /\ LaterIdle

Next ==
    \/ Open
    \/ Scan
    \/ ParseBlock
    \/ BlocksDone
    \/ AnchorNext
    \/ MetaIter
    \/ AnchorBody
    \/ Finish

Spec == Init /\ [][Next]_vars

InitInterp ==
    /\ path = <<>>
    /\ require_stereo = FALSE
    /\ pc = "bin"
    /\ ParserIdle
    /\ InterpInit
    /\ PreampIdle
    /\ LaterIdle

NextInterp ==
    \/ InterpBelow
    \/ InterpAbove
    \/ InterpSearch
    \/ SearchIter
    \/ InterpFinish

SpecInterp == InitInterp /\ [][NextInterp]_vars

InitPreamp ==
    /\ path = <<>>
    /\ require_stereo = FALSE
    /\ pc = "preamp"
    /\ ParserIdle
    /\ InterpIdle
    /\ PreampInit
    /\ LaterIdle

NextPreamp == PreampCall

SpecPreamp == InitPreamp /\ [][NextPreamp]_vars

\* no call of parse_swproj, no interpolation, no call of compute_preamp_db
EarlierIdle ==
    /\ path = <<>>
    /\ require_stereo = FALSE
    /\ ParserIdle
    /\ InterpIdle
    /\ PreampIdle

InitPcm == pc = "pcm" /\ EarlierIdle /\ PcmOthersIdle /\ PcmInit

NextPcm ==
    \/ WriteWav
    \/ RenderStart
    \/ RenderAppend
    \/ RenderWrite

SpecPcm == InitPcm /\ [][NextPcm]_vars

InitSynth ==
    /\ pc = "synth"
    /\ path = <<>>
    /\ require_stereo = FALSE
    /\ ParserIdle
    /\ PreampIdle
    /\ SynthOthersIdle
    /\ CurveInit
    /\ SynthInit

NextSynth ==
    \/ Interpolate
    \/ NpInterpolate
    \/ LogMagnitudes
    \/ MirrorStep
    \/ CepstrumStep
    \/ FoldStep
    \/ SpectrumStep
    \/ ExpStep
    \/ InverseStep

SpecSynth == InitSynth /\ [][NextSynth]_vars

InitCli == pc = "cli" /\ EarlierIdle /\ CliOthersIdle /\ CliInit

NextCli == Normalize \/ NormalizeAgain

SpecCli == InitCli /\ [][NextCli]_vars

InitStore == pc = "store" /\ EarlierIdle /\ StoreOthersIdle /\ StoreInit

NextStore == LoadState \/ SaveOpen \/ SaveWrite \/ SaveReplace \/ StatusLoad

SpecStore == InitStore /\ [][NextStore]_vars

InitQuick == pc = "quick" /\ EarlierIdle /\ QuickOthersIdle /\ QuickInit

NextQuick ==
    \/ QuickDetect
    \/ QuickConflicts
    \/ QuickProfile
    \/ QuickSink
    \/ QuickCheckpoint
    \/ QuickExport
    \/ QuickVirtualSink
    \/ QuickService
    \/ QuickSwitch
    \/ QuickSave

SpecQuick == InitQuick /\ [][NextQuick]_vars

\* parse_swproj called on the files of the block layouts and of the odd
\* metadata runs only
InitLayout == Init /\ path \in BigFiles \cup MiscFiles

SpecLayout == InitLayout /\ [][Next]_vars

\* parse_swproj runs in one thread from its first line to its return or its
\* exception: a step that can be taken is taken
InitFair == Init /\ path \in MiscFiles

SpecFair == InitFair /\ [][Next]_vars /\ WF_vars(Next)

InitLock == pc = "lock" /\ EarlierIdle /\ LockOthersIdle /\ LockInit

NextLock ==
    \E p \in Procs :
        \/ EnsureDirs(p)
        \/ OpenLock(p)
        \/ Flock(p)
        \/ Body(p)
        \/ Unlock(p)

SpecLock == InitLock /\ [][NextLock]_vars

\* commands run one after the other on one system
InitSess == pc = "sess" /\ EarlierIdle /\ SessOthersIdle /\ SessInit

NextSess ==
    \/ RunQuickstart
    \/ RunEnable
    \/ RunDisable

SpecSess == InitSess /\ [][NextSess]_vars

\* the step-by-step call and the call as a function of the bytes agree
StepsAgree ==
    pc = "done" => Result(outcome, profile) = parse_swproj(data, require_stereo)

(***************************************************************************)
(* Properties of parse_swproj, under Spec.                                 *)
(***************************************************************************)
\* sub occurs somewhere in d
Contains(d, sub) ==
    \E i \in 0..(Len(d) - Len(sub)) : \A j \in 1..Len(sub) : d[i + j] = sub[j]

Returned == pc = "done" /\ outcome = "Profile"

\* the metadata map of anchor number i (from 0), read from the bytes
MetaOf(i) == parse_metadata(data, delay_positions[i + 1], boundaries)

\* the identity (ChannelName or "Channel_<i>", ChannelIndex or i) of anchor i
IdentityOf(i) ==
    <<DictGet(MetaOf(i), Str("ChannelName"), Str("Channel_") \o IntStr(i)),
      IF Str("ChannelIndex") \in DOMAIN MetaOf(i)
      THEN PyInt(MetaOf(i)[Str("ChannelIndex")]).val
      ELSE i>>

\* the ChannelDelayMs of anchor i as a float, "0" when it has none
DelayOf(i) == PyFloat(DictGet(MetaOf(i), Str("ChannelDelayMs"), Str("0")))

Anchors == 0..(Len(delay_positions) - 1)

\* nothing before the stereo check fails: header and markers are there, every
\* read of every block lies in the buffer, every ChannelIndex is an integer
\* literal and every ChannelDelayMs a float literal
NoEarlierFailure ==
    /\ Contains(data, PROJECT_HEADER_END)
    /\ Contains(data, DATA_HEADER)
    /\ \A h \in Range(data_headers) : DecodeBlock(data, h, boundaries).ok
    /\ \A i \in Anchors :
          /\ Str("ChannelIndex") \in DOMAIN MetaOf(i)
                => PyInt(MetaOf(i)[Str("ChannelIndex")]).ok
          /\ DelayOf(i).k # "err"

\* C1: a buffer without the literal </ProjectHeader> fails with MissingHeader
\* whatever else it holds; a buffer with it and without the 8-byte data-block
\* marker fails with NoDataBlocks; neither returns a Profile.
C1_HeaderThenBlocks ==
    pc = "done" =>
        /\ ~Contains(data, PROJECT_HEADER_END)
              => outcome = "MissingHeader" /\ profile = <<>>
        /\ Contains(data, PROJECT_HEADER_END) /\ ~Contains(data, DATA_HEADER)
              => outcome = "NoDataBlocks" /\ profile = <<>>

\* a buffer with a data-block marker and an anchor and no header has failed
C1_Witness ==
    /\ pc = "done"
    /\ ~Contains(data, PROJECT_HEADER_END)
    /\ Contains(data, DATA_HEADER)
    /\ Contains(data, Str("ChannelDelayMs"))
    /\ outcome = "MissingHeader"

\* C2: under require_stereo the call fails with ChannelCountMismatch whenever
\* the anchors give a number of distinct identities other than 2, so a Profile
\* returned under require_stereo has exactly 2 channels; without
\* require_stereo the channel count fails no call.
C2_StereoCheck ==
    pc = "done" =>
        /\ require_stereo /\ NoEarlierFailure
              /\ Cardinality({IdentityOf(i) : i \in Anchors}) # 2
              => outcome = "ChannelCountMismatch"
        /\ require_stereo /\ outcome = "Profile" => Len(profile) = 2
        /\ ~require_stereo => outcome # "ChannelCountMismatch"
        /\ ~require_stereo /\ NoEarlierFailure => outcome = "Profile"

\* three anchors of three identities under require_stereo: the call has failed
C2_Witness ==
    /\ pc = "done"
    /\ require_stereo
    /\ NoEarlierFailure
    /\ Cardinality({IdentityOf(i) : i \in Anchors}) = 3
    /\ outcome = "ChannelCountMismatch"

\* C3: every channel of a returned Profile has 355 strictly increasing
\* frequencies, 355 correction values, 355 or no measurement values, and no
\* two channels have the same (name, index).
C3_CurveShape ==
    Returned =>
        /\ \A c \in 1..Len(profile) :
              /\ Len(profile[c].frequencies) = POINTS_PER_CURVE
              /\ \A k \in 1..(Len(profile[c].frequencies) - 1) :
                    F32Less(profile[c].frequencies[k], profile[c].frequencies[k + 1])
              /\ Len(profile[c].correction_dB) = POINTS_PER_CURVE
              /\ Len(profile[c].measurement_dB) \in {0, POINTS_PER_CURVE}
        /\ \A c, e \in 1..Len(profile) :
              profile[c].name = profile[e].name /\ profile[c].index = profile[e].index
                 => c = e

\* C3: every channel of a returned Profile has frequencies and correction_dB
\* of one length, 355 when block 2i exists and 0 when it does not, a
\* measurement_dB of length 355 when block 2i+1 exists and 0 when it does not,
\* and no two channels have the same (name, index); the frequencies are the
\* floats of the block, increasing or not.
C3_CurveShapeAmended ==
    Returned =>
        /\ \A i \in 0..(Len(profile) - 1) :
              /\ Len(profile[i + 1].frequencies) =
                    IF 2 * i < Len(data_headers) THEN POINTS_PER_CURVE ELSE 0
              /\ Len(profile[i + 1].correction_dB) = Len(profile[i + 1].frequencies)
              /\ Len(profile[i + 1].measurement_dB) =
                    IF 2 * i + 1 < Len(data_headers) THEN POINTS_PER_CURVE ELSE 0
        /\ \A c, e \in 1..Len(profile) :
              profile[c].name = profile[e].name /\ profile[c].index = profile[e].index
                 => c = e

\* a Profile of two channels of one block: the first has 355 frequencies
\* that do not increase, the second has none
C3_Witness ==
    /\ Returned
    /\ Len(profile) = 2
    /\ Len(data_headers) = 1
    /\ Len(profile[1].frequencies) = POINTS_PER_CURVE
    /\ ~F32Less(profile[1].frequencies[1], profile[1].frequencies[2])
    /\ profile[2].frequencies = <<>>
    /\ profile[2].correction_dB = <<>>

\* C4: the channels of a returned Profile are in ascending order of index,
\* whatever the file order of the anchors they come from.
C4_SortedByIndex ==
    Returned =>
        \A c, e \in 1..Len(profile) : c < e => profile[c].index <= profile[e].index

\* a Profile of two channels whose anchors come in descending order of index
C4_Witness ==
    /\ Returned
    /\ Len(profile) = 2
    /\ Len(channels) = 2
    /\ channels[1].index > channels[2].index
    /\ profile[1].name = channels[2].name
    /\ profile[2].name = channels[1].name

\* the decoded block number b (from 0) in discovery order, read from the bytes
BlockOf(b) == DecodeBlock(data, data_headers[b + 1], boundaries)

\* C5: the channel at position i (from 0) of a returned Profile has the
\* frequencies and the values of block 2i as frequencies and correction_dB and
\* the values of block 2i+1 as measurement_dB, each empty when there is no
\* such block; the blocks from 2 * channel_count on are in no channel.
C5_BlocksByPosition ==
    Returned =>
        \A i \in 0..(Len(profile) - 1) :
           /\ profile[i + 1].frequencies =
                 IF 2 * i < Len(data_headers) THEN BlockOf(2 * i).freqs ELSE <<>>
           /\ profile[i + 1].correction_dB =
                 IF 2 * i < Len(data_headers) THEN BlockOf(2 * i).values ELSE <<>>
           /\ profile[i + 1].measurement_dB =
                 IF 2 * i + 1 < Len(data_headers) THEN BlockOf(2 * i + 1).values ELSE <<>>

\* two channels and five blocks: the second channel has blocks 2 and 3, which
\* differ from blocks 0, 1 and 4
C5_Witness ==
    /\ Returned
    /\ Len(profile) = 2
    /\ Len(data_headers) = 5
    /\ profile[2].correction_dB = BlockOf(2).values
    /\ profile[2].measurement_dB = BlockOf(3).values
    /\ BlockOf(2).values \notin {BlockOf(0).values, BlockOf(1).values, BlockOf(4).values}
    /\ BlockOf(3).values \notin {BlockOf(0).values, BlockOf(1).values, BlockOf(4).values}

\* the delay the anchors of an identity give: the absolute value of the last
\* non-zero ChannelDelayMs among them, 0 when there is none
ExpectedDelay(ident) ==
    LET hits == {i \in Anchors : IdentityOf(i) = ident /\ FloatNonZero(DelayOf(i))}
    IN  IF hits = {} THEN FloatZero ELSE FloatAbs(DelayOf(Max(hits)))

\* C6: delay_ms of every channel of a returned Profile is the absolute value
\* of the ChannelDelayMs of the last anchor of its identity whose value is not
\* zero, or 0 when there is no such anchor, and so delay_ms >= 0.
C6_DelayOfLastNonZero ==
    Returned =>
        \A c \in 1..Len(profile) :
           /\ profile[c].delay_ms = ExpectedDelay(<<profile[c].name, profile[c].index>>)
           /\ FloatGeqZero(profile[c].delay_ms)

\* C7: every call ends with a Profile or with one of MissingHeader,
\* NoDataBlocks and ChannelCountMismatch: nothing else escapes from the
\* decoding of the blocks or from the conversion of the metadata.
C7_AllOrNothing ==
    pc = "done" =>
        /\ outcome \in {"Profile", "MissingHeader", "NoDataBlocks", "ChannelCountMismatch"}
        /\ outcome # "Profile" => profile = <<>>

\* the file ends with bytes that hold no marker, after the 355 points of its
\* last data block, and the file without them is there too
HasOpaqueTail ==
    /\ Len(path) >= 2
    /\ path[Len(path)].t = "fill"
    /\ path[Len(path) - 1].t = "pay"
    /\ path[Len(path) - 1].n = POINTS_PER_CURVE * path[Len(path) - 1].fpp
    /\ ~Contains(SegBytes(path[Len(path)]), DATA_HEADER)
    /\ ~Contains(SegBytes(path[Len(path)]), Str("ChannelDelayMs"))
    /\ SubSeq(path, 1, Len(path) - 1) \in Paths

\* C8: the bytes after the last consumed structure do not change the parse:
\* a file that ends with such bytes gives what the file without them gives.
C8_TrailingBytesIgnored ==
    pc = "done" /\ HasOpaqueTail =>
        Result(outcome, profile) =
            parse_swproj(Read(SubSeq(path, 1, Len(path) - 1)), require_stereo)

(***************************************************************************)
(* Properties of the interpolation, under SpecInterp.                      *)
(***************************************************************************)
\* the interpolated value is exactly v
Exactly(r, v) == r.den # 0 /\ r.num = v * r.den

Interpolated == pc = "bin_done"

Last(s) == s[Len(s)]

\* no frequency of the grid is repeated
StrictlyAscending(f) == \A k \in 1..(Len(f) - 1) : f[k] < f[k + 1]

AllGains == UNION {Range(pchannels[c]) : c \in 1..Len(pchannels)}

\* C10: compute_preamp_db returns 0 when the channel list is empty or the
\* maximum gain over all points of all channels is <= 0, and otherwise
\* -(that maximum + extra_headroom_db); for a headroom >= 0 the value is
\* never positive.
C10_GlobalPreamp ==
    pc = "preamp_done" =>
        /\ pchannels = <<>> => preamp = [k |-> "return", val |-> 0]
        /\ AllGains # {} /\ Max(AllGains) <= 0 => preamp = [k |-> "return", val |-> 0]
        /\ AllGains # {} /\ Max(AllGains) > 0
              => preamp = [k |-> "return", val |-> -(Max(AllGains) + headroom)]
        /\ headroom >= 0 => preamp.val <= 0

(***************************************************************************)
(* Properties of the PCM renderers, under SpecPcm.                         *)
(***************************************************************************)
Rendered == pc = "pcm_done"

\* the largest absolute value of the input samples
RawPeak == Max({Abs(irs[c][k]) : c \in 1..Len(irs), k \in 1..Len(irs[1])})

\* the rendered sample of sample k (from 1) of list c (from 1)
RenderedAt(c, k) == interleaved[(k - 1) * Len(irs) + c]

\* round(num / den) for den > 0
RoundQuot(num, den) ==
    IF num >= 0 THEN PyRoundDiv(num, den) ELSE -PyRoundDiv(-num, den)

\* C11: for an input of non-zero peak every sample of largest magnitude is
\* rendered with magnitude round(0.95 * 32767) = 31129, and every sample s as
\* round(s * scale * 32767) with scale = 0.95 / peak, by both renderers.
C11_PeakRounded ==
    Rendered /\ RawPeak # 0 =>
        \A c \in 1..Len(irs), k \in 1..Len(irs[1]) :
           /\ Abs(irs[c][k]) = RawPeak
                 => Abs(RenderedAt(c, k)) = RoundQuot(95 * FULL_SCALE, 100)
           /\ RenderedAt(c, k) = RoundQuot(irs[c][k] * 95 * FULL_SCALE, 100 * RawPeak)

\* C12: every rendered sample lies in -32767..32767; when every input sample
\* is 0 the peak is 1 and every rendered sample is 0; the interleaved
\* renderer takes the peak over all lists and writes sample i of list c at
\* position i * channel_count + c.
C12_RangeZeroAndLayout ==
    Rendered =>
        /\ Len(interleaved) = Len(irs) * Len(irs[1])
        /\ \A j \in 1..Len(interleaved) :
              interleaved[j] >= -FULL_SCALE /\ interleaved[j] <= FULL_SCALE
        /\ RawPeak = 0 => peak = 1 /\ \A j \in 1..Len(interleaved) : interleaved[j] = 0
        /\ RawPeak # 0 => peak = RawPeak
        /\ \A c \in 0..(Len(irs) - 1), i \in 0..(Len(irs[1]) - 1) :
              interleaved[i * Len(irs) + c + 1] =
                 TruncDiv(irs[c + 1][i + 1] * 95 * FULL_SCALE, 100 * peak)

\* two lists of two samples, the peak in the second list only, and the
\* four rendered samples are four values
C12_Witness ==
    /\ Rendered
    /\ renderer = "export_easyeffects"
    /\ Len(irs) = 2
    /\ Len(irs[1]) = 2
    /\ irs = <<<<-1, 0>>, <<0, 2>>>>
    /\ peak = 2
    /\ interleaved[1] = -15564
    /\ interleaved[4] = 31128

(***************************************************************************)
(* Properties of freq_response_to_ir and freq_response_to_ir_fast, under   *)
(* SpecSynth.                                                              *)
(***************************************************************************)
\* the curve is flat at 0 dB
Flat == \A k \in 1..Len(gains_dB) : gains_dB[k] = 0

\* x is within 1e-3 of the real number whole
Near(x, whole) == Abs(x - whole * Unit) * 1000 <= Unit

\* C13: for a flat 0 dB curve, both synthesizers return an impulse response
\* whose sample 0 is within 1e-3 of 1.0 and whose other samples are within
\* 1e-3 of 0.0, for every power-of-two ir_length and every sample rate
C13_FlatIsImpulse ==
    (pc = "synth_done" /\ Flat) =>
        /\ Len(ir) >= 1
        /\ Near(ir[1], 1)
        /\ \A k \in 2..Len(ir) : Near(ir[k], 0)

C13_Witness ==
    /\ pc = "synth_done"
    /\ Flat
    /\ impl = "numpy"
    /\ ir_length = Pow2(MaxLog2)
    /\ Len(ir) = ir_length
    /\ Len(freqs) > 1
    /\ Near(ir[1], 1)

\* C17: for every power-of-two ir_length there are ir_length / 2 + 1 bins,
\* the mirrored log-magnitude spectrum has exactly ir_length entries and is
\* even-symmetric (entry k equals entry ir_length - k), and the impulse
\* response has exactly ir_length samples
C17_LengthsAndSymmetry ==
    /\ pc \notin {"synth", "magnitudes"} =>
          Len(log_mag) = ir_length \div 2 + 1
    /\ pc \notin {"synth", "magnitudes", "mirror"} =>
          /\ Len(full_log_mag) = ir_length
          /\ \A k \in 1..(ir_length - 1) :
                full_log_mag[k + 1] = full_log_mag[ir_length - k + 1]
    /\ pc = "synth_done" => Len(ir) = ir_length

C17_Witness ==
    /\ pc = "synth_done"
    /\ ir_length = Pow2(MaxLog2)
    /\ Len(ir) = ir_length
    /\ Len(full_log_mag) = ir_length
    /\ full_log_mag[2] # full_log_mag[1]
    /\ full_log_mag[2] = full_log_mag[ir_length]

(***************************************************************************)
(* Properties of normalize_legacy_args, under SpecCli.                     *)
(***************************************************************************)
\* the subcommands the command line knows
Subcommands ==
    {<<"e", "x", "p", "o", "r", "t">>,
     <<"q", "u", "i", "c", "k", "s", "t", "a", "r", "t">>,
     <<"e", "n", "a", "b", "l", "e">>,
     <<"d", "i", "s", "a", "b", "l", "e">>,
     <<"s", "t", "a", "t", "u", "s">>,
     <<"d", "o", "c", "t", "o", "r">>,
     <<"r", "o", "l", "l", "b", "a", "c", "k">>,
     <<"u", "n", "i", "n", "s", "t", "a", "l", "l">>,
     <<"t", "u", "i">>}

\* the arguments are left as they are
LeftAlone ==
    \/ argv = <<>>
    \/ argv[1] \in Subcommands
    \/ (argv[1] # <<>> /\ argv[1][1] = "-")

\* C14: normalize_legacy_args returns argv unchanged when it is empty, when
\* its first element is a known subcommand or starts with '-'; otherwise it
\* returns export, --profile, the first element, then the rest; normalizing
\* a normalized list changes nothing
C14_LegacyArgs ==
    /\ (pc \in {"normalized", "renormalized"} /\ LeftAlone) => normalized = argv
    /\ (pc \in {"normalized", "renormalized"} /\ ~LeftAlone) =>
          /\ Len(normalized) = Len(argv) + 2
          /\ normalized[1] = <<"e", "x", "p", "o", "r", "t">>
          /\ normalized[2] = <<"-", "-", "p", "r", "o", "f", "i", "l", "e">>
          /\ normalized[3] = argv[1]
          /\ \A k \in 2..Len(argv) : normalized[k + 2] = argv[k]
    /\ pc = "renormalized" => renormalized = normalized

C14_Witness ==
    /\ pc = "renormalized"
    /\ ~LeftAlone
    /\ Len(argv) = MaxArgs
    /\ normalized[3] = <<"a", ".", "s", "w", "p", "r", "o", "j">>
    /\ renormalized = normalized

(***************************************************************************)
(* Properties of the state store, under SpecStore.                         *)
(***************************************************************************)
\* the keys of default_state
DefaultKeys ==
    {"version", "active_profile_id", "previous_default_sink",
     "default_sink_switched", "runtime", "created_files", "updated_at"}

\* st is a default state: every key of default_state with its default
\* value, whatever the time stamp
IsDefaultState(st) ==
    /\ DOMAIN st = DefaultKeys
    /\ \A k \in DefaultKeys \ {"updated_at"} : st[k] = default_state(1)[k]
    /\ st["updated_at"].t = "str"

\* C15: after save_state(s), load_state returns a state that agrees with s
\* on every key of s other than updated_at and that has every key of
\* default_state; when the state file is absent or is not JSON, load_state
\* returns the default state
C15_RoundTrip ==
    /\ pc = "store_loaded" =>
          /\ \A k \in (DOMAIN state) \ {"updated_at"} :
                k \in DOMAIN loaded /\ loaded[k] = state[k]
          /\ DefaultKeys \subseteq DOMAIN loaded
    /\ (pc = "store_probed" /\ state_file.kind \in {"absent", "garbage"}) =>
          IsDefaultState(loaded)

C15_Witness ==
    /\ pc = "store_loaded"
    /\ "version" \notin DOMAIN state
    /\ "legacy" \in DOMAIN state
    /\ state["created_files"].v # <<>>
    /\ loaded["created_files"] = state["created_files"]
    /\ loaded["runtime"].v["service_active"] = BoolValue(TRUE)
    /\ loaded["version"] = IntValue(1)
    /\ loaded["updated_at"] = saved["updated_at"]

(***************************************************************************)
(* Properties of quickstart, under SpecQuick.                              *)
(***************************************************************************)
\* the three detections passed, no conflicting process is active, the
\* profile file exists, a default sink was found, the export succeeded, the
\* virtual sink was ensured, the service started and is healthy
SuccessConditions ==
    /\ {"detect_pipewire", "detect_systemd_user", "detect_camilladsp",
        "ensure_existing_file", "get_default_sink", "run_export",
        "ensure_virtual_sink", "daemon_reload", "enable_start", "is_active",
        "sink_exists"} \subseteq facts
    /\ facts \cap {"is_easyeffects_active", "is_camilla_active"} = {}

\* --set-default or an interactive yes was given
SwitchAsked == args.set_default \/ "reply_yes" \in facts

LastSaved == saved_states[Len(saved_states)]

\* run returned OK and the last state saved has the computed profile id and
\* an active service
SavedActive ==
    /\ exit_code = ExitCode.OK
    /\ saved_states # <<>>
    /\ LastSaved["active_profile_id"] = StrValue(profile_id)
    /\ LastSaved["runtime"].v["service_active"] = BoolValue(TRUE)

\* without a switch asked for, set_default_sink is never called and a run
\* that succeeds saves default_sink_switched as false
NoSwitchUnasked ==
    (~SwitchAsked) =>
        /\ \A k \in 1..Len(calls) : calls[k].fn # "set_default_sink"
        /\ (pc = "q_done" /\ SuccessConditions) =>
              LastSaved["default_sink_switched"] = BoolValue(FALSE)

\* C16 as stated: when the detections pass, no conflicting process is
\* active, the profile file exists, a default sink is found, the export
\* succeeds, the virtual sink is ensured and the service starts and is
\* healthy, quickstart returns OK and saves the computed profile id with
\* runtime.service_active true; without --set-default and without an
\* interactive yes (also with --yes alone) set_default_sink is never called
\* and default_sink_switched is saved as false
C16_SuccessPath ==
    /\ (pc = "q_done" /\ SuccessConditions) => SavedActive
    /\ NoSwitchUnasked

\* C16 amended: the same, the switch of the default sink, when it is asked
\* for, having succeeded and the default sink then being the virtual sink
C16_SuccessPathAmended ==
    /\ (pc = "q_done" /\ SuccessConditions
          /\ (SwitchAsked => {"set_default_sink", "switch_stuck"} \subseteq facts))
        => SavedActive
    /\ NoSwitchUnasked

C16_Witness ==
    /\ pc = "q_done"
    /\ SuccessConditions
    /\ args.yes
    /\ ~SwitchAsked
    /\ Len(saved_states) = 2
    /\ SavedActive
    /\ LastSaved["default_sink_switched"] = BoolValue(FALSE)
    /\ profile_id = "abc123"

(***************************************************************************)
(* Properties of _parse_metadata and _parse_blocks, under SpecLayout.      *)
(***************************************************************************)
\* C18: the metadata decoding of an anchor is bounded by the next boundary
\* b (end): the cursor never moves beyond b, so no byte of a key or of a
\* value at an offset of b or more is decoded into the map of that anchor
C18_BoundedByBoundary ==
    pc \in {"meta", "meta_done"} => pos <= end

\* the block decoded last, its header, and the bytes from 8 bytes past the
\* header to the next boundary or the end of the buffer
LastBlock == blocks[Len(blocks)]
LastHeader == data_headers[Len(blocks)]
Available ==
    Min({b \in Range(boundaries) \cup {Len(data)} : b > LastHeader + 8}
        \cup {Len(data)}) - (LastHeader + 8)

\* the block decoded last was read with the stride s: 355 points, point i
\* with its frequency at i * s * 4 and its value 4 bytes later, nothing else
ReadWithStride(s) ==
    \E d \in {data}, start \in {LastHeader + 8}, b \in {LastBlock} :
        /\ b.fpp = s
        /\ Len(b.freqs) = POINTS_PER_CURVE
        /\ Len(b.values) = POINTS_PER_CURVE
        /\ DOMAIN b = {"fpp", "freqs", "values"}
        /\ \A i \in 0..(POINTS_PER_CURVE - 1) :
              /\ b.freqs[i + 1] = F32(d, start + i * s * 4)
              /\ b.values[i + 1] = F32(d, start + i * s * 4 + 4)

\* C19 as stated: the stride of a block is round((available_bytes / 4) / 355),
\* 2 for exactly 355 * 2 * 4 bytes and 3 for exactly 355 * 3 * 4 bytes; point
\* i has its frequency at i * stride * 4 and its value at + 4, and a third
\* float of a point is dropped
C19_Stride ==
    (pc = "blocks" /\ blocks # <<>>) =>
        /\ ReadWithStride(RoundQuot(Available, 4 * POINTS_PER_CURVE))
        /\ Available = POINTS_PER_CURVE * 2 * 4 => LastBlock.fpp = 2
        /\ Available = POINTS_PER_CURVE * 3 * 4 => LastBlock.fpp = 3

\* C19 amended: the stride is round(floor(available_bytes / 4) / 355), the
\* whole floats available over 355; the rest as stated
C19_StrideAmended ==
    (pc = "blocks" /\ blocks # <<>>) =>
        /\ ReadWithStride(RoundQuot(Available \div 4, POINTS_PER_CURVE))
        /\ Available = POINTS_PER_CURVE * 2 * 4 => LastBlock.fpp = 2
        /\ Available = POINTS_PER_CURVE * 3 * 4 => LastBlock.fpp = 3

\* a block of exactly 355 * 3 * 4 bytes is read with stride 3, and no value
\* is the third float of its point
C19_Witness ==
    /\ pc = "blocks"
    /\ blocks # <<>>
    /\ Available = POINTS_PER_CURVE * 3 * 4
    /\ LastBlock.fpp = 3
    /\ LastBlock.values[2] = F32(data, LastHeader + 8 + 16)
    /\ LastBlock.values[2] # F32(data, LastHeader + 8 + 20)

\* the offsets, from the cursor p to 50 bytes after it, that hold a NUL
NulsNear(d, p) == {k \in p..(p + MAX_KEY_LEN) : k < Len(d) /\ At(d, k) = 0}

\* the candidate at the cursor p has a NUL at most 50 bytes after p and a key
\* of 2 characters or more, all printable
KeyFits(d, p) ==
    /\ NulsNear(d, p) # {}
    /\ Min(NulsNear(d, p)) - p >= 2
    /\ IsPrintable(Decode(Slice(d, p, Min(NulsNear(d, p)))))

\* the candidate at p is a record: its key fits and its length, the uint32
\* after the NUL, is at most 200
IsRecord(d, p) ==
    /\ KeyFits(d, p)
    /\ Min(NulsNear(d, p)) + 5 <= Len(d)
    /\ U32(d, Min(NulsNear(d, p)) + 1) <= MAX_VAL_LEN

\* the key fits and the buffer ends before the fourth byte of the length
CutOff(d, p) == KeyFits(d, p) /\ Min(NulsNear(d, p)) + 5 > Len(d)

\* the iteration s from the cursor p and the map m stores the record at p:
\* its value under its key, replacing what the key had, nothing else changed,
\* the cursor on the first byte after the value
StoresRecord(d, p, m, s) ==
    \E n \in {Min(NulsNear(d, p))} :
        /\ s.pos = n + 5 + U32(d, n + 1)
        /\ DOMAIN s.meta = DOMAIN m \cup {Decode(Slice(d, p, n))}
        /\ s.meta[Decode(Slice(d, p, n))] = Decode(Slice(d, n + 5, s.pos))
        /\ \A k \in DOMAIN m : k # Decode(Slice(d, p, n)) => s.meta[k] = m[k]

\* C20 as stated: a record is stored only if a NUL is found at most 50 bytes
\* after the cursor, the key has 2 characters or more, all printable, and the
\* uint32 length is at most 200; every rejected candidate advances the cursor
\* by exactly one byte and stores nothing; an accepted record advances the
\* cursor to the first byte after its value; of a key stored twice the later
\* value replaces the earlier
C20_RecordRules ==
    (pc = "meta" /\ pos < end) =>
        \E d \in {data}, s \in {MetaStep(data, pos, meta)} :
            /\ IsRecord(d, pos) => StoresRecord(d, pos, meta, s)
            /\ ~IsRecord(d, pos) => (s.pos = pos + 1 /\ s.meta = meta /\ ~s.brk)

\* C20 amended: the same, but a candidate whose key fits and whose length
\* field is cut off by the end of the buffer ends the scan: nothing is
\* stored and the cursor stays
C20_RecordRulesAmended ==
    (pc = "meta" /\ pos < end) =>
        \E d \in {data}, s \in {MetaStep(data, pos, meta)} :
            /\ IsRecord(d, pos) => StoresRecord(d, pos, meta, s)
            /\ (~IsRecord(d, pos) /\ ~CutOff(d, pos)) =>
                  (s.pos = pos + 1 /\ s.meta = meta /\ ~s.brk)
            /\ CutOff(d, pos) => (s.pos = pos /\ s.meta = meta /\ s.brk)

\* the scan of an anchor is over: it skipped bytes one by one, and the key
\* ChannelIndex, stored twice, has the later value
C20_Witness ==
    /\ pc = "meta_done"
    /\ Str("ChannelIndex") \in DOMAIN meta
    /\ meta[Str("ChannelIndex")] = Str("2")
    /\ Contains(data, Str("ChannelIndex") \o <<0, 1, 0, 0, 0>> \o Str("1"))
    /\ Contains(data, <<200, 200, 200>>)

(***************************************************************************)
(* The binary search of freq_response_to_ir, under SpecInterp.             *)
(***************************************************************************)
\* the branch of line 34 was taken: the target is strictly inside the grid
Inside == Len(freqs) >= 2 /\ freqs[1] < bf /\ bf < Last(freqs)

\* freqs[lo] <= target < freqs[hi], lo and hi being offsets from 0
Brackets(l, h) ==
    /\ 0 <= l
    /\ l < h
    /\ h <= Len(freqs) - 1
    /\ freqs[l + 1] <= bf
    /\ bf < freqs[h + 1]

\* C21: for an ascending grid of at least 2 points and a target with
\* freqs[0] < target < freqs[-1], the loop keeps freqs[lo] <= target <
\* freqs[hi] at every iteration, every iteration brings hi and lo strictly
\* closer without crossing, the search ends with hi = lo + 1 and
\* freqs[lo] <= target < freqs[hi], and when freqs[hi] = freqs[lo] the
\* interpolation parameter is 0 (the value is gains_dB[lo]).
C21_SearchBrackets ==
    /\ pc = "search" =>
          /\ Inside
          /\ Brackets(lo, hi)
          /\ hi - lo > 1 =>
                /\ Brackets(SearchStep(freqs, bf, lo, hi).lo,
                            SearchStep(freqs, bf, lo, hi).hi)
                /\ SearchStep(freqs, bf, lo, hi).hi - SearchStep(freqs, bf, lo, hi).lo
                      < hi - lo
    /\ Interpolated /\ Inside =>
          /\ hi = lo + 1
          /\ Brackets(lo, hi)
          /\ freqs[hi + 1] = freqs[lo + 1] => interp = Rat(gains_dB[lo + 1], 1)
          /\ \A l \in 0..(Len(freqs) - 2) :
                freqs[l + 2] = freqs[l + 1]
                   => InterpAt(freqs, gains_dB, bf, l, l + 1) = Rat(gains_dB[l + 1], 1)

\* a search of two iterations over a grid of four points with a repeated
\* frequency, ended between the last two points
C21_Witness ==
    /\ Interpolated
    /\ Inside
    /\ Len(freqs) = 4
    /\ freqs[1] = freqs[2]
    /\ lo = 2
    /\ hi = 3
    /\ freqs[3] < bf
    /\ bf < freqs[4]
    /\ interp = InterpAt(freqs, gains_dB, bf, 2, 3)

(***************************************************************************)
(* The cepstral window of both synthesizers, under SpecSynth.              *)
(***************************************************************************)
\* the longest window compared entry by entry
MaxWindow == 9

\* the cepstrum has been folded
Folded == pc \in {"spectrum", "exp", "inverse", "synth_done"}

\* C22: the minimum-phase cepstral window of the reference synthesizer and
\* of the fast path is the same for every length N: weight 1 at index 0,
\* weight 2 at indices 1..N/2-1, weight 1 at index N/2 when N is even, weight
\* 0 at every index above N/2; and the folded cepstrum of a run is the
\* cepstrum times these weights in both implementations.
C22_SameWindow ==
    /\ \A n \in 1..MaxWindow :
          /\ RefWindow(n) = NpWindow(n)
          /\ Len(RefWindow(n)) = n
          /\ \A k \in 0..(n - 1) : RefWindow(n)[k + 1] = Window(k, n)
    /\ Folded =>
          /\ Len(mp_cepstrum.re) = Len(cepstrum.re)
          /\ \A k \in 0..(Len(cepstrum.re) - 1) :
                mp_cepstrum.re[k + 1] = Window(k, Len(cepstrum.re)) * cepstrum.re[k + 1]

\* the fast path has folded a cepstrum of 8 samples that is not zero at the
\* Nyquist index, at an index below it and at an index above it
C22_Witness ==
    /\ Folded
    /\ impl = "numpy"
    /\ Len(cepstrum.re) = 8
    /\ cepstrum.re[5] # 0
    /\ mp_cepstrum.re[5] = cepstrum.re[5]
    /\ cepstrum.re[2] # 0
    /\ mp_cepstrum.re[2] = 2 * cepstrum.re[2]
    /\ cepstrum.re[8] # 0
    /\ mp_cepstrum.re[8] = 0

(***************************************************************************)
(* Termination of parse_swproj, under SpecFair.                            *)
(***************************************************************************)
\* the search position of the header scan moves past each match
ScanAdvances ==
    pc = "scan" =>
        \E s \in {ScanStep(data, scan_pos, data_headers)} :
            s.idx # -1 =>
                /\ s.idx >= scan_pos
                /\ s.pos = s.idx + 1
                /\ s.pos <= Len(data)

\* an iteration of the metadata loop leaves the loop, or moves the cursor by
\* one byte and stores nothing, or moves it over a whole record: a key of at
\* least 2 bytes, its NUL and the 4 bytes of the length
MetaAdvances ==
    pc = "meta" =>
        \E s \in {MetaStep(data, pos, meta)} :
            \/ s.brk
            \/ s.pos = pos + 1 /\ s.meta = meta
            \/ s.pos >= pos + 7

\* the cursors of the metadata loop from p on
RECURSIVE Cursors(_, _, _)
Cursors(d, p, e) ==
    IF p >= e THEN {p}
    ELSE LET s == MetaStep(d, p, EmptyDict)
         IN  IF s.brk THEN {p} ELSE {p} \cup Cursors(d, s.pos, e)

\* C23: for every finite buffer parsing terminates: the header scan moves its
\* search position past each match, every iteration of the metadata loop
\* exits or strictly increases the cursor (by one byte on resynchronization,
\* by more on an accepted record), and the call returns or raises.
C23_Terminates ==
    /\ [](ScanAdvances /\ MetaAdvances)
    /\ <>(pc = "done")

\* a call that returned after a scan over two headers and a metadata loop
\* that both resynchronized and accepted a record for the last anchor
C23_Witness ==
    /\ pc = "done"
    /\ outcome = "Profile"
    /\ Len(data_headers) >= 2
    /\ scan_pos = data_headers[Len(data_headers)] + 1
    /\ Len(delay_positions) >= 1
    /\ pos >= end
    /\ \E c \in {Cursors(data, delay_positions[Len(delay_positions)], end)} :
          /\ \E p \in c : p < end /\ MetaStep(data, p, EmptyDict).pos = p + 1
          /\ \E p \in c : p < end /\ MetaStep(data, p, EmptyDict).pos >= p + 7

(***************************************************************************)
(* Properties of state_lock, under SpecLock.                               *)
(***************************************************************************)
\* the process is between the yield of state_lock and its unlock
InSection(p) == lock_pc[p] \in {"body", "return"}

\* C24: for any interleaving of concurrently running quickstart, enable,
\* disable and uninstall processes at most one of them is inside its
\* state_lock section at any time, processes that start while or after an
\* uninstall removes the directory of the lock file included.
C24_MutualExclusion ==
    \A p, q \in Procs : InSection(p) /\ InSection(q) => p = q

\* with no uninstall among the commands the sections exclude one another
ExclusionWithoutUninstall ==
    (\A p \in Procs : command[p] # "uninstall") => C24_MutualExclusion

(***************************************************************************)
(* The checkpoint of quickstart, under SpecQuick.                          *)
(***************************************************************************)
\* no routing or service change has been made yet
BeforeChanges == calls = <<>>

\* the state in the state file while quickstart is between its checkpoint
\* and its assignments of line 110: the last state saved, or with no save the
\* state load_state read
PersistedAtCheckpoint ==
    IF saved_states # <<>> THEN saved_states[Len(saved_states)] ELSE run_state

\* a non-empty previous_default_sink that load_state returned comes from the
\* state file: default_state has None
FromStateFile(st) == st \in LoadedStates /\ st # default_state(1)

\* C25: in every quickstart run, before the first routing or service change
\* (creating the virtual sink, writing the service file, daemon-reload,
\* enable/start, switching the default sink) the persisted state already
\* holds a non-empty previous_default_sink.
C25_CheckpointFirst ==
    /\ pc \in {"quick", "q_conflicts", "q_profile", "q_sink", "q_checkpoint",
               "q_export"} => BeforeChanges
    /\ pc \in {"q_vsink", "q_service", "q_switch"} =>
          /\ Truthy(PersistedAtCheckpoint, "previous_default_sink")
          /\ PersistedAtCheckpoint["previous_default_sink"] # StrValue("")
          /\ saved_states = <<>> => FromStateFile(run_state)
    /\ ~BeforeChanges => calls[1] = Call("ensure_virtual_sink", VIRTUAL_SINK)

\* the state file had no previous_default_sink: the checkpoint was saved with
\* the default sink found, and the virtual sink was then created
C25_Witness ==
    /\ pc = "q_service"
    /\ calls = <<Call("ensure_virtual_sink", VIRTUAL_SINK)>>
    /\ Len(saved_states) = 1
    /\ default_sink # ""
    /\ saved_states[1]["previous_default_sink"] = StrValue(default_sink)

(***************************************************************************)
(* The sink recorded as the previous default over several commands.        *)
(***************************************************************************)
\* the state a command would load now
Persisted == LoadSaved(state_json)

\* successful quickstart and enable commands have run, at least one of them
\* switched the default sink to the virtual sink, and nothing else has run
OnlySwitchingSuccesses == course = "successes" /\ original_sink # ""

\* C26: after successful quickstart and enable commands that switched the
\* default sink to the virtual sink at least once, the recorded
\* previous_default_sink is the sink that was the default before the first
\* switch and is not the virtual sink; a disable that follows leaves the
\* system default sink at that sink and saves default_sink_switched = false
C26_OriginalSinkKept ==
    /\ OnlySwitchingSuccesses =>
          /\ Persisted["previous_default_sink"] = StrValue(original_sink)
          /\ Persisted["previous_default_sink"] # StrValue(VIRTUAL_SINK)
    /\ (course = "disabled" /\ original_sink # "") =>
          /\ system.default = original_sink
          /\ Persisted["default_sink_switched"] = BoolValue(FALSE)

\* the same for one switching command followed by disable
SingleSwitchRestored ==
    (course = "disabled" /\ original_sink # "" /\ ran = 2) =>
        /\ system.default = original_sink
        /\ Persisted["default_sink_switched"] = BoolValue(FALSE)

(***************************************************************************)
(* The rollback of quickstart.                                             *)
(***************************************************************************)
\* the calls of quickstart whose failure ends in fail_with_rollback
RollbackStages ==
    {"daemon_reload", "enable_start", "health", "set_default_sink", "stick"}

\* the last command was a quickstart that failed at one of these calls
QuickstartRolledBack ==
    /\ last_run # <<>>
    /\ last_run.command = "quickstart"
    /\ last_run.stage \in RollbackStages

\* the keys of the final state are as they were before the command
FinalStateNotSaved ==
    \A k \in {"active_profile_id", "runtime", "default_sink_switched",
              "created_files"} :
        Persisted[k] = LoadSaved(last_run.file_before)[k]

\* the service is stopped and disabled and the virtual sink is unloaded
TornDown ==
    /\ ~system.active
    /\ ~system.enabled
    /\ VIRTUAL_SINK \notin system.sinks

\* C27: a quickstart that fails at daemon-reload, at enable/start, at the
\* health check or while switching the default sink returns RUNTIME_ERROR
\* with the service stopped and disabled and the virtual sink unloaded, the
\* default sink is the one the command started with, and the final state is
\* not saved
C27_RollbackRestores ==
    QuickstartRolledBack =>
        /\ last_run.exit_code = ExitCode.RUNTIME_ERROR
        /\ TornDown
        /\ system.default = last_run.before.default
        /\ FinalStateNotSaved

\* the same for a quickstart that started with a sink of the hardware as the
\* default sink
RollbackFromHardwareSink ==
    (QuickstartRolledBack /\ last_run.before.default \in HardwareSinks) =>
        /\ last_run.exit_code = ExitCode.RUNTIME_ERROR
        /\ TornDown
        /\ system.default = last_run.before.default
        /\ FinalStateNotSaved

(***************************************************************************)
(* The conflict guard of enable and quickstart.                            *)
(***************************************************************************)
\* the last command was an enable or a quickstart without --force that came
\* as far as the guard
ReachedGuard ==
    /\ last_run # <<>>
    /\ ~last_run.force
    /\ \/ last_run.command = "quickstart" /\ last_run.stage # "detect"
       \/ last_run.command = "enable"
          /\ last_run.stage \notin {"no_profile", "profile"}

\* the guard made the last command return
Blocked == last_run.stage = "conflict"

\* the last command has left the system and the state file as they were
NothingChanged ==
    /\ system = last_run.before
    /\ state_json = last_run.file_before

\* C29: enable and quickstart without --force return RUNTIME_ERROR and change
\* nothing exactly when EasyEffects or a camilladsp process other than the
\* tool's own service is active; the tool's own service alone does not block
C29_ConflictGuard ==
    ReachedGuard =>
        /\ Blocked <=> last_run.before.foreign # {}
        /\ Blocked => /\ last_run.exit_code = ExitCode.RUNTIME_ERROR
                      /\ NothingChanged

\* the guard as the code has it: it blocks exactly when EasyEffects, a
\* foreign camilladsp or the tool's own service is active
GuardCountsOwnService ==
    ReachedGuard =>
        /\ Blocked <=> (last_run.before.foreign # {} \/ last_run.before.active)
        /\ Blocked => /\ last_run.exit_code = ExitCode.RUNTIME_ERROR
                      /\ NothingChanged

(***************************************************************************)
(* What a reader sees while the state is saved.                            *)
(***************************************************************************)
\* the file save_state puts at the path state_file()
NewFile == JsonFile(ToJson(DictValue(saved)))

\* C28: a load_state that runs in another process while save_state runs reads
\* either the complete file that was there before or the complete new file,
\* and returns the state of that file
C28_ReadersSeeWholeFiles ==
    \A o \in observed :
        /\ o.file \in {previous_file, NewFile}
        /\ o.file # Partial
        /\ o.state \in {load_state(previous_file, 0).state,
                        load_state(NewFile, 0).state}

\* a reader has read the saved state of before during the save, and another
\* the new one after it
C28_Witness ==
    /\ pc = "store_saved"
    /\ previous_file.kind = "json"
    /\ \E o1, o2 \in observed :
          /\ o1.file = previous_file
          /\ o2.file = NewFile
          /\ o1.state # o2.state

(***************************************************************************)
(* The bytes read while a block is decoded, under SpecLayout.              *)
(***************************************************************************)
\* the bytes unpacked for point i of a block that starts at start and is read
\* with the stride s: two floats
ReadBytes(start, s, i) == (start + i * s * 4)..(start + i * s * 4 + 7)

\* C30: every frequency read and every value read of a block touches only
\* bytes of the block's own region, from 8 bytes past its marker up to the
\* next boundary or the end of the buffer, and no read runs past the end of
\* the buffer, whatever the stride
C30_ReadsInsideBlock ==
    /\ (pc = "blocks" /\ blocks # <<>>) =>
          \E start \in {LastHeader + 8}, s \in {LastBlock.fpp} :
          \E region \in {start..(start + Available - 1)} :
             \A i \in 0..(POINTS_PER_CURVE - 1) :
                ReadBytes(start, s, i) \subseteq region
    /\ outcome # "struct.error"

\* a block decoded without an error whose reads leave its region
ReadsIntoNextStructure ==
    /\ pc = "blocks"
    /\ blocks # <<>>
    /\ LastHeader + 8 + (POINTS_PER_CURVE - 1) * LastBlock.fpp * 4 + 8
          > LastHeader + 8 + Available
    /\ LastHeader + 8 + Available < Len(data)

====
